---- MODULE Spec2Model ----
(***************************************************************************)
(* gcdiff: the structural diff engine (internal/compare), the ignore-rule  *)
(* evaluator (internal/config) and the flattening of a Diff tree.          *)
(*                                                                         *)
(* Values are the JSON values encoding/json hands to the differ:           *)
(*   nil, bool, float64, string, []interface{}, map[string]interface{}.    *)
(* A value is a record [t |-> category, v |-> payload]; the payload of a   *)
(* scalar is its text, of an array a sequence of values, of an object a    *)
(* function from key strings to values.  Strings are TLA+ strings; paths   *)
(* are built with \o exactly as the code concatenates them.                *)
(***************************************************************************)
EXTENDS Integers, Sequences, FiniteSets, TLC

VARIABLES obj1, obj2, config, showAll, diff, diffs, pc

\* the renderers: the writes made to the nodes of diff, what each render
\* wrote, and the two names printed in the header
VARIABLES heap, outs, name1, name2

renderVars == <<heap, outs, name1, name2>>

\* the commands: which command runs, its flags, the config file viper found,
\* the fetched resources, what config.Load returned, the rules in use, the
\* lines written to stderr and the error the command returns
VARIABLES command, project1, project2, includeIAM, format, cfgFile,
          resource1, resource2, loaded, cfg, stderr, err

cmdVars == <<command, project1, project2, includeIAM, format, cfgFile,
             resource1, resource2, loaded, cfg, stderr, err>>

vars == <<obj1, obj2, config, showAll, diff, diffs, pc, renderVars, cmdVars>>

(***************************************************************************)
(* Bound of the input space.                                               *)
(***************************************************************************)
\* most values (scalars, arrays, objects) below the root of an input document
MaxNodes == 3

(***************************************************************************)
(* The value model.                                                        *)
(***************************************************************************)
Nil == [t |-> "null", v |-> ""]

Number(s) == [t |-> "number", v |-> s]

String(s) == [t |-> "string", v |-> s]

Bool(s) == [t |-> "bool", v |-> s]

Array(seq) == [t |-> "array", v |-> seq]

Object(map) == [t |-> "object", v |-> map]

\* the empty map[string]interface{}
EmptyMap == [k \in {} |-> Nil]

\* all maps with keys among `keys` and values in `vals`
MapsOver(keys, vals) == UNION {[S -> vals] : S \in SUBSET keys}

\* all sequences of length at most n over `vals`
SeqsUpTo(n, vals) == UNION {[1..m -> vals] : m \in 0..n}

RECURSIVE SumSizes(_, _)
RECURSIVE Size(_)
\* the number of values in a value, itself included
Size(val) ==
    IF val.t = "array" THEN 1 + SumSizes([i \in DOMAIN val.v |-> Size(val.v[i])], DOMAIN val.v)
    ELSE IF val.t = "object" THEN 1 + SumSizes([k \in DOMAIN val.v |-> Size(val.v[k])], DOMAIN val.v)
    ELSE 1

\* the sum of f over S
SumSizes(f, S) ==
    IF S = {} THEN 0
    ELSE LET x == CHOOSE y \in S : TRUE IN f[x] + SumSizes(f, S \ {x})

(***************************************************************************)
(* internal/config: the ignore-rule set and its evaluator.                 *)
(***************************************************************************)
\* a Config value
Config(fields, patterns) == [IgnoreFields |-> fields, IgnorePatterns |-> patterns]

\* config.Default()
Default ==
    Config(<<"id", "selfLink", "creationTimestamp", "lastModifiedTimestamp",
             "fingerprint", "kind", "etag">>,
           <<".*Timestamp$", ".*Fingerprint$">>)

\* mutant: the last path segment is matched instead of the whole path
ShouldIgnoreLastSegment(c, fieldPath) ==
    \E i \in DOMAIN c.IgnoreFields :
        LET f == c.IgnoreFields[i] IN
        \/ f = fieldPath
        \/ /\ Len(fieldPath) > Len(f)
           /\ SubSeq(fieldPath, Len(fieldPath) - Len(f), Len(fieldPath)) = "." \o f

\* (c *Config) ShouldIgnore(fieldPath): exact matches over IgnoreFields only;
\* IgnorePatterns is never read
ShouldIgnore(c, fieldPath) ==
    \E i \in DOMAIN c.IgnoreFields : c.IgnoreFields[i] = fieldPath

(***************************************************************************)
(* internal/compare: the Diff tree and the differ.                         *)
(***************************************************************************)
DiffTypeAdded == "added"

DiffTypeRemoved == "removed"

DiffTypeModified == "modified"

DiffTypeEqual == "equal"

\* no children: a nil or empty map[string]*Diff (len(Children) == 0)
NoChildren == [k \in {} |-> Nil]

\* a Diff struct; an unset Value1/Value2 is the nil interface, as a null payload is
Diff(path, type, value1, value2, children) ==
    [Path |-> path, Type |-> type, Value1 |-> value1, Value2 |-> value2,
     Children |-> children]

\* NewDiffer(cfg, showAll)
NewDiffer(rules, all) == [config |-> rules, showAll |-> all]

\* fmt.Sprintf("[%d]", i)
IndexKey(i) == "[" \o ToString(i) \o "]"

\* the larger of two lengths
Max(m, n) == IF n > m THEN n ELSE m

\* the smaller of two lengths
Min(m, n) == IF n < m THEN n ELSE m

\* the field path of `key` below `path`
FieldPath(path, key) == IF path # "" THEN path \o "." \o key ELSE key

RECURSIVE compareObjects(_, _, _, _)
RECURSIVE compareValues(_, _, _, _)
RECURSIVE compareArrays(_, _, _, _)

\* mutant: an equal scalar pair is reported as modified
compareScalarsAlwaysModified(val1, val2, path) ==
    Diff(path, DiffTypeModified, val1, val2, NoChildren)

\* the default branch of compareValues: reflect.DeepEqual on two scalars of one type
compareScalars(val1, val2, path) ==
    IF val1 = val2 THEN Diff(path, DiffTypeEqual, Nil, Nil, NoChildren)
    ELSE Diff(path, DiffTypeModified, val1, val2, NoChildren)

\* mutant: the nil checks are missing, nil against a value is a type mismatch
compareValuesNilAsValue(d, val1, val2, path) ==
    IF val1.t # val2.t THEN Diff(path, DiffTypeModified, val1, val2, NoChildren)
    ELSE IF val1.t = "object" THEN compareObjects(d, val1.v, val2.v, path)
    ELSE IF val1.t = "array" THEN compareArrays(d, val1.v, val2.v, path)
    ELSE compareScalars(val1, val2, path)

\* mutant: scalars of different types are compared by their text
compareValuesCoerced(d, val1, val2, path) ==
    IF val1 = Nil /\ val2 = Nil THEN Diff(path, DiffTypeEqual, Nil, Nil, NoChildren)
    ELSE IF val1 = Nil THEN Diff(path, DiffTypeAdded, Nil, val2, NoChildren)
    ELSE IF val2 = Nil THEN Diff(path, DiffTypeRemoved, val1, Nil, NoChildren)
    ELSE IF val1.t = "object" /\ val2.t = "object" THEN compareObjects(d, val1.v, val2.v, path)
    ELSE IF val1.t = "array" /\ val2.t = "array" THEN compareArrays(d, val1.v, val2.v, path)
    ELSE IF val1.t \in {"object", "array"} \/ val2.t \in {"object", "array"}
    THEN Diff(path, DiffTypeModified, val1, val2, NoChildren)
    ELSE IF val1.v = val2.v THEN Diff(path, DiffTypeEqual, Nil, Nil, NoChildren)
    ELSE Diff(path, DiffTypeModified, val1, val2, NoChildren)

\* (d *Differ) compareValues(val1, val2, path)
compareValues(d, val1, val2, path) ==
    IF val1 = Nil /\ val2 = Nil THEN Diff(path, DiffTypeEqual, Nil, Nil, NoChildren)
    ELSE IF val1 = Nil THEN Diff(path, DiffTypeAdded, Nil, val2, NoChildren)
    ELSE IF val2 = Nil THEN Diff(path, DiffTypeRemoved, val1, Nil, NoChildren)
    ELSE IF val1.t # val2.t THEN Diff(path, DiffTypeModified, val1, val2, NoChildren)
    ELSE IF val1.t = "object" THEN compareObjects(d, val1.v, val2.v, path)
    ELSE IF val1.t = "array" THEN compareArrays(d, val1.v, val2.v, path)
    ELSE compareScalars(val1, val2, path)

\* mutant: every key is compared, the evaluator is not consulted
keptKeysAll(d, o1, o2, path) == DOMAIN o1 \cup DOMAIN o2

\* mutant: the evaluator is consulted even when showAll is set
keptKeysNoShowAll(d, o1, o2, path) ==
    {key \in DOMAIN o1 \cup DOMAIN o2 : ~ShouldIgnore(d.config, FieldPath(path, key))}

\* mutant: the ignore test is inverted, the keys the evaluator passes are skipped
keptKeysInverted(d, o1, o2, path) ==
    {key \in DOMAIN o1 \cup DOMAIN o2 :
        ~(~d.showAll /\ ~ShouldIgnore(d.config, FieldPath(path, key)))}

\* the keys of the union that compareObjects does not skip
keptKeys(d, o1, o2, path) ==
    {key \in DOMAIN o1 \cup DOMAIN o2 :
        ~(~d.showAll /\ ShouldIgnore(d.config, FieldPath(path, key)))}

\* mutant: an Added or Removed child carries the value on both sides
objectChildBothPayloads(d, o1, o2, path, key) ==
    IF key \notin DOMAIN o1 /\ key \in DOMAIN o2
    THEN Diff(FieldPath(path, key), DiffTypeAdded, o2[key], o2[key], NoChildren)
    ELSE IF key \in DOMAIN o1 /\ key \notin DOMAIN o2
    THEN Diff(FieldPath(path, key), DiffTypeRemoved, o1[key], o1[key], NoChildren)
    ELSE compareValues(d, o1[key], o2[key], FieldPath(path, key))

\* mutant: Added and Removed are exchanged for keys present on one side only
objectChildSwapped(d, o1, o2, path, key) ==
    IF key \notin DOMAIN o1 /\ key \in DOMAIN o2
    THEN Diff(FieldPath(path, key), DiffTypeRemoved, o2[key], Nil, NoChildren)
    ELSE IF key \in DOMAIN o1 /\ key \notin DOMAIN o2
    THEN Diff(FieldPath(path, key), DiffTypeRemoved, o1[key], Nil, NoChildren)
    ELSE compareValues(d, o1[key], o2[key], FieldPath(path, key))

\* the body of compareObjects' loop for one key that is not skipped
objectChild(d, o1, o2, path, key) ==
    IF key \notin DOMAIN o1 /\ key \in DOMAIN o2
    THEN Diff(FieldPath(path, key), DiffTypeAdded, Nil, o2[key], NoChildren)
    ELSE IF key \in DOMAIN o1 /\ key \notin DOMAIN o2
    THEN Diff(FieldPath(path, key), DiffTypeRemoved, o1[key], Nil, NoChildren)
    ELSE compareValues(d, o1[key], o2[key], FieldPath(path, key))

\* mutant: a node keeps the kind Equal when it has stored a child
compareObjectsNoBubble(d, o1, o2, path) ==
    LET kept == keptKeys(d, o1, o2, path)
        child == [key \in kept |-> objectChild(d, o1, o2, path, key)]
        stored == {key \in kept : child[key].Type # DiffTypeEqual}
    IN Diff(path, DiffTypeEqual, Nil, Nil, [key \in stored |-> child[key]])

\* mutant: the children that compare Equal are stored as well
compareObjectsStoreEqual(d, o1, o2, path) ==
    LET kept == keptKeys(d, o1, o2, path)
        child == [key \in kept |-> objectChild(d, o1, o2, path, key)]
        stored == {key \in kept : child[key].Type # DiffTypeEqual}
    IN Diff(path, IF stored = {} THEN DiffTypeEqual ELSE DiffTypeModified, Nil, Nil, child)

\* (d *Differ) compareObjects(obj1, obj2, path); each key writes only its own
\* child, so the result does not depend on the order the key map is ranged over
compareObjects(d, o1, o2, path) ==
    LET kept == keptKeys(d, o1, o2, path)
        child == [key \in kept |-> objectChild(d, o1, o2, path, key)]
        stored == {key \in kept : child[key].Type # DiffTypeEqual}
    IN Diff(path, IF stored = {} THEN DiffTypeEqual ELSE DiffTypeModified, Nil, Nil,
            [key \in stored |-> child[key]])

\* mutant: the elements past the shorter array are not visited
arrayIndicesCommon(arr1, arr2) == 0 .. (Min(Len(arr1), Len(arr2)) - 1)

\* the indices compareArrays' loop visits: 0 <= i < maxLen
arrayIndices(arr1, arr2) == 0 .. (Max(Len(arr1), Len(arr2)) - 1)

\* the body of compareArrays' loop for index i (arr[i] in Go is arr[i + 1] here)
arrayChild(d, arr1, arr2, path, i) ==
    IF i < Len(arr1) /\ i < Len(arr2)
    THEN compareValues(d, arr1[i + 1], arr2[i + 1], path \o IndexKey(i))
    ELSE IF i >= Len(arr1)
    THEN Diff(path \o IndexKey(i), DiffTypeAdded, Nil, arr2[i + 1], NoChildren)
    ELSE Diff(path \o IndexKey(i), DiffTypeRemoved, arr1[i + 1], Nil, NoChildren)

\* mutant: an array node keeps the kind Equal whatever its elements are
compareArraysNoBubble(d, arr1, arr2, path) ==
    LET idx == arrayIndices(arr1, arr2)
        child == [i \in idx |-> arrayChild(d, arr1, arr2, path, i)]
        stored == {i \in idx : child[i].Type # DiffTypeEqual}
        at(key) == CHOOSE i \in stored : IndexKey(i) = key
    IN Diff(path, DiffTypeEqual, Nil, Nil,
            [key \in {IndexKey(i) : i \in stored} |-> child[at(key)]])

\* (d *Differ) compareArrays(arr1, arr2, path); the evaluator is never consulted
compareArrays(d, arr1, arr2, path) ==
    LET idx == arrayIndices(arr1, arr2)
        child == [i \in idx |-> arrayChild(d, arr1, arr2, path, i)]
        stored == {i \in idx : child[i].Type # DiffTypeEqual}
        at(key) == CHOOSE i \in stored : IndexKey(i) = key
    IN Diff(path, IF stored = {} THEN DiffTypeEqual ELSE DiffTypeModified, Nil, Nil,
            [key \in {IndexKey(i) : i \in stored} |-> child[at(key)]])

\* (d *Differ) Compare(obj1, obj2)
Compare(d, o1, o2) == compareObjects(d, o1, o2, "")

(***************************************************************************)
(* sort.Strings: byte-wise lexicographic order.  Alphabet lists the bytes  *)
(* that occur in keys in ascending byte value.                             *)
(***************************************************************************)
Alphabet == "$*.0123456789ABCDEFGHIJKLMNOPQRSTUVWXYZ[]_abcdefghijklmnopqrstuvwxyz"

\* the rank of a one-byte string in byte order
Byte(c) == CHOOSE i \in 1..Len(Alphabet) : SubSeq(Alphabet, i, i) = c

RECURSIVE StringLess(_, _)
\* a < b on Go strings
StringLess(a, b) ==
    IF b = "" THEN FALSE
    ELSE IF a = "" THEN TRUE
    ELSE IF Head(a) # Head(b) THEN Byte(Head(a)) < Byte(Head(b))
    ELSE StringLess(Tail(a), Tail(b))

RECURSIVE SortStrings(_)
\* sort.Strings over a set of distinct keys, as an ascending sequence
SortStrings(S) ==
    IF S = {} THEN <<>>
    ELSE LET least == CHOOSE x \in S : \A y \in S \ {x} : StringLess(x, y)
         IN <<least>> \o SortStrings(S \ {least})

RECURSIVE FlattenChildren(_, _)
RECURSIVE GetAllDiffs(_)
\* GetAllDiffs(diff): pre-order, children in sort.Strings order of their keys
GetAllDiffs(d) ==
    (IF d.Type # DiffTypeEqual /\ DOMAIN d.Children = {} THEN <<d>> ELSE <<>>)
        \o FlattenChildren(d, SortStrings(DOMAIN d.Children))

\* the loop of GetAllDiffs over the sorted keys
FlattenChildren(d, keys) ==
    IF keys = <<>> THEN <<>>
    ELSE GetAllDiffs(d.Children[Head(keys)]) \o FlattenChildren(d, Tail(keys))

(***************************************************************************)
(* The input space: the documents and rule sets the comparison is run on.  *)
(***************************************************************************)
\* field names at the root of a document
TopKeys == {"id", "tags"}

\* field names of a nested object
InnerKeys == {"id"}

\* null, two numbers, and a string that renders like the first number
Scalars == {Nil, Number("1"), Number("2"), String("1")}

\* what an array element or a nested field holds
InnerScalars == {Nil, Number("1"), Number("2")}

\* values of nesting depth at most one
Values ==
    Scalars
        \cup {Array(s) : s \in SeqsUpTo(MaxNodes - 1, InnerScalars)}
        \cup {Object(m) : m \in MapsOver(InnerKeys, InnerScalars)}

\* the documents: maps at the root holding at most MaxNodes values in all, the
\* resource's id being a scalar
Documents ==
    {m \in MapsOver(TopKeys, Values) :
        /\ "id" \in DOMAIN m => m["id"] \in Scalars
        /\ Size(Object(m)) <= MaxNodes + 1}

\* a rule set with no entry
EmptyConfig == Config(<<>>, <<>>)

\* a user's rule set: a root path, a nested path, an element path, one pattern
CustomConfig == Config(<<"tags.id", "tags[0]", "id">>, <<".*tags$">>)

\* the rule sets a Differ is built with
Configs == {Default, EmptyConfig, CustomConfig}

\* the value of diff before Compare has run
NoDiff == Diff("", "none", Nil, Nil, NoChildren)

(***************************************************************************)
(* The state machine: a Differ is built from (config, showAll), Compare    *)
(* is run on the two documents, and the tree is flattened.                 *)
(***************************************************************************)
\* nothing has been rendered and no node has been written to
NothingRendered ==
    /\ heap = <<>>
    /\ outs = <<>>
    /\ name1 = "vm-1"
    /\ name2 = "vm-2"

\* no command runs
NoCommand ==
    /\ command = "none"
    /\ project1 = ""
    /\ project2 = ""
    /\ includeIAM = FALSE
    /\ format = "diff"
    /\ cfgFile = [path |-> "", state |-> "missing",
                  yaml |-> [valid |-> FALSE, ignore_fields |-> <<>>, ignore_patterns |-> <<>>]]
    /\ resource1 = <<>>
    /\ resource2 = <<>>
    /\ loaded = [cfg |-> <<>>, err |-> ""]
    /\ cfg = [IgnoreFields |-> <<>>, IgnorePatterns |-> <<>>]
    /\ stderr = <<>>
    /\ err = ""

Init ==
    /\ obj1 \in Documents
    /\ obj2 \in Documents
    /\ config \in Configs
    /\ showAll \in BOOLEAN
    /\ diff = NoDiff
    /\ diffs = <<>>
    /\ pc = "input"
    /\ NothingRendered
    /\ NoCommand

\* diff := NewDiffer(config, showAll).Compare(obj1, obj2)
DoCompare ==
    /\ pc = "input"
    /\ diff' = Compare(NewDiffer(config, showAll), obj1, obj2)
    /\ pc' = "compared"
    /\ UNCHANGED <<obj1, obj2, config, showAll, diffs, renderVars, cmdVars>>

\* diffs := GetAllDiffs(diff)
DoGetAllDiffs ==
    /\ pc = "compared"
    /\ diffs' = GetAllDiffs(diff)
    /\ pc' = "flattened"
    /\ UNCHANGED <<obj1, obj2, config, showAll, diff, renderVars, cmdVars>>

Next == DoCompare \/ DoGetAllDiffs

Spec == Init /\ [][Next]_vars

(***************************************************************************)
(* Helpers of the properties.                                              *)
(***************************************************************************)
\* the Differ the state's Compare was run with
TheDiffer == NewDiffer(config, showAll)

\* Compare has run in this state
Compared == pc \in {"compared", "flattened"}

\* a map without one key
Without(m, k) == [x \in DOMAIN m \ {k} |-> m[x]]

\* the kinds of the children of a node, as a set
ChildTypes(node) == {node.Children[k].Type : k \in DOMAIN node.Children}

RECURSIVE Mirror(_)
\* a tree with Added and Removed exchanged and before/after swapped in every node
Mirror(node) ==
    Diff(node.Path,
         IF node.Type = DiffTypeAdded THEN DiffTypeRemoved
         ELSE IF node.Type = DiffTypeRemoved THEN DiffTypeAdded
         ELSE node.Type,
         node.Value2, node.Value1,
         [k \in DOMAIN node.Children |-> Mirror(node.Children[k])])

(***************************************************************************)
(* C1  Reflexivity: whatever the rule set and showAll, comparing a         *)
(* document with itself returns a root of kind Equal, and flattening that  *)
(* tree returns no leaf.                                                   *)
(***************************************************************************)
C1_Reflexive ==
    (Compared /\ obj1 = obj2) =>
        /\ diff.Type = DiffTypeEqual
        /\ GetAllDiffs(diff) = <<>>
        /\ pc = "flattened" => diffs = <<>>

\* a document holding an array and a scalar was compared with itself and flattened
C1_Witness ==
    /\ pc = "flattened"
    /\ obj1 = obj2
    /\ DOMAIN obj1 = TopKeys
    /\ obj1["tags"].t = "array"
    /\ Len(obj1["tags"].v) > 0
    /\ diff.Type = DiffTypeEqual
    /\ diffs = <<>>

(***************************************************************************)
(* C2  Anti-symmetry: Compare(b, a) is Compare(a, b) with the same paths   *)
(* and children keys, Added and Removed exchanged with the payload moved   *)
(* between after and before, and before/after swapped in Modified nodes.   *)
(***************************************************************************)
C2_AntiSymmetric ==
    Compared => Compare(TheDiffer, obj2, obj1) = Mirror(diff)

\* a tree holding an Added leaf and, in an array, a Removed and a Modified leaf
C2_Witness ==
    /\ Compared
    /\ DOMAIN diff.Children = TopKeys
    /\ diff.Children["id"].Type = DiffTypeAdded
    /\ ChildTypes(diff.Children["tags"]) = {DiffTypeRemoved, DiffTypeModified}

(***************************************************************************)
(* C3  Null is indistinguishable from absence: when a key of either        *)
(* document holds null, Compare returns the tree it returns with that key  *)
(* removed from the document; Compare({k: null}, {}) is Equal.             *)
(***************************************************************************)
C3_NullIsAbsence ==
    Compared =>
        /\ \A k \in DOMAIN obj1 :
               obj1[k] = Nil => diff = Compare(TheDiffer, Without(obj1, k), obj2)
        /\ \A k \in DOMAIN obj2 :
               obj2[k] = Nil => diff = Compare(TheDiffer, obj1, Without(obj2, k))

RECURSIVE DeleteIgnored(_, _, _)
\* a value with every object key deleted whose field path is in the rule set of c
DeleteIgnored(c, val, path) ==
    IF val.t = "object"
    THEN Object([k \in {x \in DOMAIN val.v : ~ShouldIgnore(c, FieldPath(path, x))} |->
                    DeleteIgnored(c, val.v[k], FieldPath(path, k))])
    ELSE IF val.t = "array"
    THEN Array([i \in DOMAIN val.v |-> DeleteIgnored(c, val.v[i], path \o IndexKey(i - 1))])
    ELSE val

RECURSIVE Kinds(_)
\* a tree without its payloads: paths, kinds and children keys
Kinds(node) ==
    Diff(node.Path, node.Type, Nil, Nil, [k \in DOMAIN node.Children |-> Kinds(node.Children[k])])

RECURSIVE NoIgnoredField(_, _)
\* no node below `node` is the child of an object key whose field path c ignores
NoIgnoredField(c, node) ==
    \A k \in DOMAIN node.Children :
        /\ node.Children[k].Path = FieldPath(node.Path, k) => ~ShouldIgnore(c, node.Children[k].Path)
        /\ NoIgnoredField(c, node.Children[k])

\* the first document of the end-to-end example
ExampleDoc1 == [k \in {"id", "name", "zone"} |->
                   IF k = "id" THEN String("1") ELSE IF k = "name" THEN String("a") ELSE String("z1")]

\* the second document of the end-to-end example
ExampleDoc2 == [k \in {"id", "name", "zone"} |->
                   IF k = "id" THEN String("2") ELSE IF k = "name" THEN String("b") ELSE String("z1")]

(***************************************************************************)
(* C4  With showAll=false an object key whose field path is in the rule    *)
(* set contributes nothing: no node of the tree has a child for such a     *)
(* key, and every node has the kind (and the children) it has when the     *)
(* key is deleted from both documents.  The documents {id:"1", name:"a",   *)
(* zone:"z1"} and {id:"2", name:"b", zone:"z1"} flatten under the default  *)
(* rules to exactly one Modified leaf at path name.                        *)
(***************************************************************************)
C4_IgnoredKeyContributesNothing ==
    (Compared /\ ~showAll) =>
        /\ NoIgnoredField(config, diff)
        /\ \A k \in TopKeys :
               ShouldIgnore(config, k) =>
                   diff = Compare(TheDiffer, Without(obj1, k), Without(obj2, k))
        /\ Kinds(diff) = Kinds(Compare(TheDiffer, DeleteIgnored(config, Object(obj1), "").v,
                                                  DeleteIgnored(config, Object(obj2), "").v))
        /\ GetAllDiffs(Compare(NewDiffer(Default, FALSE), ExampleDoc1, ExampleDoc2))
               = <<Diff("name", DiffTypeModified, String("a"), String("b"), NoChildren)>>

\* an ignored root key differs, an ignored nested key exists on one side only, and
\* the tree is Equal all the same
C4_Witness ==
    /\ Compared
    /\ ~showAll
    /\ config = CustomConfig
    /\ DOMAIN obj1 = TopKeys
    /\ DOMAIN obj2 = TopKeys
    /\ obj1["id"] # obj2["id"]
    /\ obj1["tags"] = Object(EmptyMap)
    /\ obj2["tags"] = Object([k \in {"id"} |-> Number("1")])
    /\ diff.Type = DiffTypeEqual

\* the entries of a list, as a set
Range(seq) == {seq[i] : i \in DOMAIN seq}

\* the paths ShouldIgnore is probed with
ProbePaths ==
    {"", "i", "id", "ID", "idx", "tags", "tags.id", "tags[0]", "tags[1]", "selfLink",
     "metadata", "metadata.id", "disks[0].id", "metadata.creationTimestamp",
     "creationTimestamp", "lastStartTimestamp", "diskFingerprint"}

\* the pattern lists a rule set may carry
PatternLists == {<<>>, <<".*Timestamp$", ".*Fingerprint$">>, <<".*id$", ".*tags$">>}

HasSuffix(s, suffix) ==
    /\ Len(s) >= Len(suffix)
    /\ SubSeq(s, Len(s) - Len(suffix) + 1, Len(s)) = suffix

\* regexp.MatchString(pattern, s) for a pattern of the form .*literal$
MatchString(pattern, s) == HasSuffix(s, SubSeq(pattern, 3, Len(pattern) - 1))

\* path matches one of the patterns of c
MatchesPattern(c, path) ==
    \E i \in DOMAIN c.IgnorePatterns : MatchString(c.IgnorePatterns[i], path)

RECURSIVE NoPatternField(_, _)
\* no node below `node` is the child of an object key whose field path matches a pattern
NoPatternField(c, node) ==
    \A k \in DOMAIN node.Children :
        /\ node.Children[k].Path = FieldPath(node.Path, k) => ~MatchesPattern(c, node.Children[k].Path)
        /\ NoPatternField(c, node.Children[k])

(***************************************************************************)
(* C6  Ignore patterns are honoured: with showAll=false no field whose     *)
(* path matches one of the configured ignore_patterns has a node in the    *)
(* tree, also when the path is not listed in ignore_fields.                *)
(***************************************************************************)
C6_PatternsHonoured ==
    (Compared /\ ~showAll) => NoPatternField(config, diff)

RECURSIVE NoIgnoredPath(_, _)
\* no node below `node` has a path c ignores
NoIgnoredPath(c, node) ==
    \A k \in DOMAIN node.Children :
        /\ ~ShouldIgnore(c, node.Children[k].Path)
        /\ NoIgnoredPath(c, node.Children[k])

(***************************************************************************)
(* C7  With showAll=false a difference at any path of the rule set is      *)
(* suppressed: no node of the tree other than the root has a path that is  *)
(* in the rule set, whether the path addresses an object field or an       *)
(* array element such as tags[0].                                          *)
(***************************************************************************)
C7_RulePathsSuppressed ==
    (Compared /\ ~showAll) => NoIgnoredPath(config, diff)

(***************************************************************************)
(* C8  showAll bypasses the evaluator: with showAll=true Compare returns,  *)
(* for every rule set, the tree it returns with an empty rule set; no step *)
(* changes the rule set, and after the call a Compare with showAll=false   *)
(* and the same rule set still has no child for an ignored root key.       *)
(***************************************************************************)
C8_ShowAllBypasses ==
    [][/\ config' = config
       /\ (pc = "input" /\ pc' = "compared" /\ showAll) =>
              /\ diff' = Compare(NewDiffer(EmptyConfig, FALSE), obj1, obj2)
              /\ diff' = Compare(NewDiffer(EmptyConfig, TRUE), obj1, obj2)
              /\ \A k \in TopKeys :
                     ShouldIgnore(config', k) =>
                         k \notin DOMAIN Compare(NewDiffer(config', FALSE), obj1, obj2).Children]_vars

\* with showAll set and the default rules, the differing root id is in the tree
C8_Witness ==
    /\ Compared
    /\ showAll
    /\ config = Default
    /\ "id" \in DOMAIN diff.Children
    /\ diff.Children["id"].Type = DiffTypeModified
    /\ "id" \notin DOMAIN Compare(NewDiffer(config, FALSE), obj1, obj2).Children

\* the paths a rule set is extended with
RulePaths == {"id", "tags", "tags.id", "tags[0]"}

\* the rule set c with one more exact path
WithRule(c, p) == Config(Append(c.IgnoreFields, p), c.IgnorePatterns)

\* the number of leaves of Compare(obj1, obj2) under rule set c, showAll=false
LeafCount(c) == Len(GetAllDiffs(Compare(NewDiffer(c, FALSE), obj1, obj2)))

(***************************************************************************)
(* C9  Ignoring monotonicity: with showAll=false, adding a path to the     *)
(* rule set never increases the number of leaves GetAllDiffs returns for   *)
(* the same two documents.                                                 *)
(***************************************************************************)
C9_IgnoringMonotone ==
    (pc = "flattened" /\ ~showAll) =>
        \A p \in RulePaths :
            /\ LeafCount(WithRule(config, p)) <= Len(diffs)
            /\ \A q \in RulePaths :
                   LeafCount(WithRule(WithRule(config, p), q)) <= LeafCount(WithRule(config, p))

\* two leaves are reported, and one more rule removes exactly one of them
C9_Witness ==
    /\ pc = "flattened"
    /\ ~showAll
    /\ Len(diffs) = 2
    /\ LeafCount(WithRule(config, "tags")) = 1
    /\ LeafCount(WithRule(config, "tags[0]")) = 2

\* both documents hold an array at tags and the field is compared
BothArrays ==
    /\ "tags" \in DOMAIN obj1 \cap DOMAIN obj2
    /\ obj1["tags"].t = "array"
    /\ obj2["tags"].t = "array"
    /\ showAll \/ ~ShouldIgnore(config, "tags")

\* the node of the tags array: stored in the root unless it is Equal
TagsNode ==
    IF "tags" \in DOMAIN diff.Children THEN diff.Children["tags"]
    ELSE Diff("tags", DiffTypeEqual, Nil, Nil, NoChildren)

\* the first document of the cascade example
CascadeDoc1 == [k \in {"a"} |-> Array(<<Number("1"), Number("2"), Number("3")>>)]

\* the second document of the cascade example
CascadeDoc2 == [k \in {"a"} |-> Array(<<Number("0"), Number("1"), Number("2"), Number("3")>>)]

\* the node of the array a in the cascade example
CascadeNode == Compare(NewDiffer(Default, FALSE), CascadeDoc1, CascadeDoc2).Children["a"]

(***************************************************************************)
(* C10  Array comparison is strictly positional: for arrays x (length m)   *)
(* and y (length n) at the same path, the array node has children only at  *)
(* index keys [i] with i < max(m, n); for i < min(m, n) the child is the   *)
(* value comparison of x[i] with y[i], stored only when it is not Equal;   *)
(* for min <= i < max the child is Added with after = y[i] when n > m and  *)
(* Removed with before = x[i] when m > n.  Compare({a:[1,2,3]},            *)
(* {a:[0,1,2,3]}) has a difference at each of the indices 0, 1, 2, 3.      *)
(***************************************************************************)
C10_PositionalArrays ==
    /\ (Compared /\ BothArrays) =>
           LET x == obj1["tags"].v
               y == obj2["tags"].v
               m == Len(x)
               n == Len(y)
               node == TagsNode
               has(i) == IndexKey(i) \in DOMAIN node.Children
               child(i) == node.Children[IndexKey(i)]
               both(i) == compareValues(TheDiffer, x[i + 1], y[i + 1], "tags" \o IndexKey(i))
           IN /\ DOMAIN node.Children \subseteq {IndexKey(i) : i \in 0 .. (Max(m, n) - 1)}
              /\ \A i \in 0 .. (Min(m, n) - 1) :
                     /\ has(i) <=> both(i).Type # DiffTypeEqual
                     /\ has(i) => child(i) = both(i)
              /\ \A i \in Min(m, n) .. (Max(m, n) - 1) :
                     /\ has(i)
                     /\ n > m => child(i) = Diff("tags" \o IndexKey(i), DiffTypeAdded, Nil, y[i + 1], NoChildren)
                     /\ m > n => child(i) = Diff("tags" \o IndexKey(i), DiffTypeRemoved, x[i + 1], Nil, NoChildren)
              /\ node.Type = (IF DOMAIN node.Children = {} THEN DiffTypeEqual ELSE DiffTypeModified)
    /\ DOMAIN CascadeNode.Children = {"[0]", "[1]", "[2]", "[3]"}
    /\ \A i \in 0 .. 2 : CascadeNode.Children[IndexKey(i)].Type = DiffTypeModified
    /\ CascadeNode.Children["[3]"] = Diff("a[3]", DiffTypeAdded, Nil, Number("3"), NoChildren)

\* arrays of lengths 1 and 2 whose first elements differ were compared
C10_Witness ==
    /\ Compared
    /\ BothArrays
    /\ Len(obj1["tags"].v) = 1
    /\ Len(obj2["tags"].v) = 2
    /\ obj2["tags"].v[2] # Nil
    /\ DOMAIN TagsNode.Children = {"[0]", "[1]"}
    /\ TagsNode.Children["[0]"].Type = DiffTypeModified
    /\ TagsNode.Children["[1]"].Type = DiffTypeAdded


\* the root keys present in both documents that compareObjects does not skip
SharedKeys == (DOMAIN obj1 \cap DOMAIN obj2) \cap keptKeys(TheDiffer, obj1, obj2, "")

\* what the null-handling rule asks of the node `node` (absent when `has` is false)
\* that compares a with b at `path`, when one of the two is null
NullRule(a, b, has, node, path) ==
    /\ (a = Nil /\ b = Nil) => ~has
    /\ (a = Nil /\ b # Nil) => has /\ node = Diff(path, DiffTypeAdded, Nil, b, NoChildren)
    /\ (a # Nil /\ b = Nil) => has /\ node = Diff(path, DiffTypeRemoved, a, Nil, NoChildren)

\* both documents hold an object at tags and the field is compared
BothObjects ==
    /\ "tags" \in SharedKeys
    /\ obj1["tags"].t = "object"
    /\ obj2["tags"].t = "object"

(***************************************************************************)
(* C11  Null-handling rule for a key or index present in both operands:    *)
(* null against null is Equal (no node is stored); null against a non-null *)
(* value v is an Added leaf with after = v and no before; v against null   *)
(* is a Removed leaf with before = v and no after.  This holds for a       *)
(* scalar, array or object v alike, and the leaf has no children.          *)
(***************************************************************************)
C11_NullHandling ==
    Compared =>
        /\ \A k \in SharedKeys :
               NullRule(obj1[k], obj2[k], k \in DOMAIN diff.Children,
                        IF k \in DOMAIN diff.Children THEN diff.Children[k] ELSE NoDiff, k)
        /\ BothArrays =>
               \A i \in 0 .. (Min(Len(obj1["tags"].v), Len(obj2["tags"].v)) - 1) :
                   LET key == IndexKey(i)
                       has == key \in DOMAIN TagsNode.Children
                   IN NullRule(obj1["tags"].v[i + 1], obj2["tags"].v[i + 1], has,
                               IF has THEN TagsNode.Children[key] ELSE NoDiff, "tags" \o key)
        /\ BothObjects =>
               \A k \in (DOMAIN obj1["tags"].v \cap DOMAIN obj2["tags"].v)
                            \cap keptKeys(TheDiffer, obj1["tags"].v, obj2["tags"].v, "tags") :
                   LET has == k \in DOMAIN TagsNode.Children
                   IN NullRule(obj1["tags"].v[k], obj2["tags"].v[k], has,
                               IF has THEN TagsNode.Children[k] ELSE NoDiff, "tags." \o k)

\* null faced an array at a root key and a number at an array index
C11_Witness ==
    /\ Compared
    /\ "id" \in SharedKeys
    /\ obj1["id"] = Nil
    /\ obj2["id"] = Nil
    /\ BothArrays
    /\ Len(obj1["tags"].v) = 1
    /\ obj1["tags"].v[1] # Nil
    /\ Len(obj2["tags"].v) = 1
    /\ obj2["tags"].v[1] = Nil
    /\ DOMAIN diff.Children = {"tags"}
    /\ TagsNode.Children["[0]"].Type = DiffTypeRemoved

\* a root key holds null in the first document and an array in the second
C11_WitnessContainer ==
    /\ Compared
    /\ "tags" \in SharedKeys
    /\ obj1["tags"] = Nil
    /\ obj2["tags"].t = "array"
    /\ Len(obj2["tags"].v) = 2
    /\ diff.Children["tags"].Type = DiffTypeAdded


\* one value or more of every kind of JSON value; "5" and 5, "true" and true
\* carry the same text under different kinds
KindSamples ==
    {Bool("true"), Bool("false"), Number("5"), Number("1"), String("5"), String("true"),
     String("1"), Array(<<>>), Array(<<Number("5")>>), Object(EmptyMap),
     Object([k \in {"id"} |-> Number("5")])}

(***************************************************************************)
(* C12  Type-mismatch rule: two non-null values of different kinds (string,*)
(* number, boolean, array, object) compare as one Modified leaf that       *)
(* carries both values unchanged and has no children.  Nothing is coerced: *)
(* the string "5" differs from the number 5, and neither side is descended *)
(* into.                                                                   *)
(***************************************************************************)
C12_TypeMismatch ==
    Compared =>
        /\ \A k \in SharedKeys :
               (obj1[k] # Nil /\ obj2[k] # Nil /\ obj1[k].t # obj2[k].t) =>
                   /\ k \in DOMAIN diff.Children
                   /\ diff.Children[k] = Diff(k, DiffTypeModified, obj1[k], obj2[k], NoChildren)
        /\ \A a \in KindSamples : \A b \in KindSamples :
               a.t # b.t =>
                   compareValues(TheDiffer, a, b, "id")
                       = Diff("id", DiffTypeModified, a, b, NoChildren)

\* the string "1" faced the number 1 at id, and an array faced an object at tags
C12_Witness ==
    /\ Compared
    /\ SharedKeys = {"id", "tags"}
    /\ obj1["id"] = String("1")
    /\ obj2["id"] = Number("1")
    /\ obj1["tags"].t = "array"
    /\ obj2["tags"].t = "object"
    /\ diff.Children["id"].Type = DiffTypeModified
    /\ diff.Children["tags"].Children = NoChildren

\* no node below `node` is Equal, and every node that has children is Modified
RECURSIVE NoEqualBelow(_)
NoEqualBelow(node) ==
    \A k \in DOMAIN node.Children :
        /\ node.Children[k].Type # DiffTypeEqual
        /\ (DOMAIN node.Children[k].Children # {}) => node.Children[k].Type = DiffTypeModified
        /\ NoEqualBelow(node.Children[k])

(***************************************************************************)
(* C13  Pruning and bubbling: a child that compares Equal is never stored  *)
(* in its parent's children; a container node (object or array compare,    *)
(* the root included) is Equal exactly when it stored no child and         *)
(* Modified otherwise.                                                     *)
(***************************************************************************)
C13_PruneAndBubble ==
    Compared =>
        /\ NoEqualBelow(diff)
        /\ (diff.Type = DiffTypeEqual) <=> (DOMAIN diff.Children = {})
        /\ (diff.Type = DiffTypeModified) <=> (DOMAIN diff.Children # {})
        /\ \A k \in SharedKeys :
               (compareValues(TheDiffer, obj1[k], obj2[k], k).Type = DiffTypeEqual)
                   <=> (k \notin DOMAIN diff.Children)
        /\ (BothArrays \/ BothObjects) =>
               LET node == compareValues(TheDiffer, obj1["tags"], obj2["tags"], "tags")
               IN /\ (node.Type = DiffTypeEqual) <=> (DOMAIN node.Children = {})
                  /\ (node.Type = DiffTypeModified) <=> (DOMAIN node.Children # {})
                  /\ ("tags" \in DOMAIN diff.Children) <=> (DOMAIN node.Children # {})

\* one array element is equal and pruned, the other differs and makes the
\* array and the root Modified
C13_Witness ==
    /\ Compared
    /\ BothArrays
    /\ Len(obj1["tags"].v) = 2
    /\ Len(obj2["tags"].v) = 2
    /\ obj1["tags"].v[1] = obj2["tags"].v[1]
    /\ obj1["tags"].v[1] # Nil
    /\ diff.Type = DiffTypeModified
    /\ DOMAIN diff.Children = {"tags"}
    /\ DOMAIN diff.Children["tags"].Children = {"[1]"}


(***************************************************************************)
(* Comparing two long arrays: the arrays at tags hold up to MaxLongLen     *)
(* elements, so that the index keys reach two digits.                      *)
(***************************************************************************)
\* the longest array compared; index [10] needs eleven elements
MaxLongLen == 11

\* the array of n copies of val
Repeat(val, n) == Array([i \in 1..n |-> val])

\* a document whose tags field is an array of n copies of val
LongDocument(val, n) == [k \in {"tags"} |-> Repeat(val, n)]

InitLong ==
    /\ \E n \in 0..MaxLongLen : \E val \in {Number("1"), Number("2")} :
           obj1 = LongDocument(val, n)
    /\ \E n \in 0..MaxLongLen : \E val \in {Number("1"), Number("2")} :
           obj2 = LongDocument(val, n)
    /\ config = EmptyConfig
    /\ showAll \in BOOLEAN
    /\ diff = NoDiff
    /\ diffs = <<>>
    /\ pc = "input"
    /\ NothingRendered
    /\ NoCommand

SpecLong == InitLong /\ [][Next]_vars

\* the number an index key "[i]" carries, -1 for a key that is not an index key
IndexOf(key) ==
    IF \E i \in 0..MaxLongLen : IndexKey(i) = key
    THEN CHOOSE i \in 0..MaxLongLen : IndexKey(i) = key
    ELSE -1

\* key order with index keys ordered by their number
KeyBefore(a, b) ==
    IF IndexOf(a) >= 0 /\ IndexOf(b) >= 0 THEN IndexOf(a) < IndexOf(b) ELSE StringLess(a, b)

RECURSIVE SortKeysNumeric(_)
SortKeysNumeric(S) ==
    IF S = {} THEN <<>>
    ELSE LET least == CHOOSE x \in S : \A y \in S \ {x} : KeyBefore(x, y)
         IN <<least>> \o SortKeysNumeric(S \ {least})

RECURSIVE FlattenNumericChildren(_, _)
RECURSIVE FlattenNumeric(_)
\* the leaves in pre-order with index keys visited in numeric order
FlattenNumeric(d) ==
    (IF d.Type # DiffTypeEqual /\ DOMAIN d.Children = {} THEN <<d>> ELSE <<>>)
        \o FlattenNumericChildren(d, SortKeysNumeric(DOMAIN d.Children))

FlattenNumericChildren(d, keys) ==
    IF keys = <<>> THEN <<>>
    ELSE FlattenNumeric(d.Children[Head(keys)]) \o FlattenNumericChildren(d, Tail(keys))

(***************************************************************************)
(* C17  Flatten ordering: GetAllDiffs returns, in depth-first pre-order,    *)
(* exactly the nodes without children whose kind is not Equal, visiting a  *)
(* node's children in sorted key order where array index keys are ordered  *)
(* by their number, so that [2] comes before [10].                         *)
(***************************************************************************)
C17_NumericIndexOrder ==
    pc = "flattened" =>
        /\ diffs = FlattenNumeric(diff)
        /\ \A i \in 1..Len(diffs) :
               diffs[i].Type # DiffTypeEqual /\ DOMAIN diffs[i].Children = {}

(***************************************************************************)
(* Text output (internal/compare/output.go).  What a renderer writes is a  *)
(* sequence of lines; a line is the text between two newlines.             *)
(***************************************************************************)
\* the escape byte that starts an ANSI colour sequence
Esc == "^["

\* color.New(attribute).SprintFunc() with colours enabled; with
\* color.NoColor the two escape sequences are dropped and nothing else changes
colorize(code, s) == Esc \o "[" \o code \o "m" \o s \o Esc \o "[0m"

green(s) == colorize("32", s)

red(s) == colorize("31", s)

yellow(s) == colorize("33", s)

cyan(s) == colorize("36", s)

bold(s) == colorize("1", s)

\* strings.Repeat("-", 80)
Rule == "--------------------------------------------------------------------------------"

\* the line both renderers print for a tree without differences
NoDifferences == green("\\u2713 No differences found")

\* fmt.Sprintf("%q", s) and the JSON text of a string without special bytes
Quote(s) == "\"" \o s \o "\""

RECURSIVE Join(_, _)
\* strings.Join(parts, sep)
Join(parts, sep) ==
    IF parts = <<>> THEN ""
    ELSE IF Len(parts) = 1 THEN parts[1]
    ELSE parts[1] \o sep \o Join(Tail(parts), sep)

RECURSIVE Concat(_)
\* the lines of several writes, one after the other
Concat(seqs) == IF seqs = <<>> THEN <<>> ELSE Head(seqs) \o Concat(Tail(seqs))

\* a pending partial line `pre` is completed by the first of `lines`, and
\* `post` is written after the last of them
Decorate(lines, pre, post) ==
    [i \in 1..Len(lines) |->
        (IF i = 1 THEN pre ELSE "") \o lines[i] \o (IF i = Len(lines) THEN post ELSE "")]

RECURSIVE jsonMarshal(_)
\* json.Marshal(value): compact JSON, object keys sorted
jsonMarshal(val) ==
    IF val.t = "null" THEN "null"
    ELSE IF val.t = "string" THEN Quote(val.v)
    ELSE IF val.t = "array"
    THEN "[" \o Join([i \in 1..Len(val.v) |-> jsonMarshal(val.v[i])], ",") \o "]"
    ELSE IF val.t = "object"
    THEN LET keys == SortStrings(DOMAIN val.v)
         IN "{" \o Join([i \in 1..Len(keys) |->
                            Quote(keys[i]) \o ":" \o jsonMarshal(val.v[keys[i]])], ",") \o "}"
    ELSE val.v

RECURSIVE jsonMarshalIndent(_, _, _)
\* json.MarshalIndent(value, prefix, indent) split at newlines; `cur` is the
\* prefix followed by one indent per level of nesting
jsonMarshalIndent(val, cur, indent) ==
    IF val.t = "array"
    THEN IF Len(val.v) = 0 THEN <<"[]">>
         ELSE <<"[">>
              \o Concat([i \in 1..Len(val.v) |->
                            Decorate(jsonMarshalIndent(val.v[i], cur \o indent, indent),
                                     cur \o indent,
                                     IF i = Len(val.v) THEN "" ELSE ",")])
              \o <<cur \o "]">>
    ELSE IF val.t = "object"
    THEN LET keys == SortStrings(DOMAIN val.v)
         IN IF Len(keys) = 0 THEN <<"{}">>
            ELSE <<"{">>
                 \o Concat([i \in 1..Len(keys) |->
                               Decorate(jsonMarshalIndent(val.v[keys[i]], cur \o indent, indent),
                                        cur \o indent \o Quote(keys[i]) \o ": ",
                                        IF i = Len(keys) THEN "" ELSE ",")])
                 \o <<cur \o "}">>
    ELSE <<jsonMarshal(val)>>

\* printValue(w, indent, value, colorFunc): the lines written, the first of
\* which continues the line the caller left open
printValue(indent, value, code) ==
    IF value = Nil THEN <<colorize(code, "<nil>")>>
    ELSE IF value.t \in {"object", "array"}
    THEN LET lines == jsonMarshalIndent(value, indent, "  ")
         IN [i \in 1..Len(lines) |->
                IF i = 1 THEN colorize(code, lines[i])
                ELSE indent \o colorize(code, lines[i])]
    ELSE IF value.t = "string" THEN <<colorize(code, Quote(value.v))>>
    ELSE <<colorize(code, value.v)>>

RECURSIVE insertByPath(_, _)
\* one step of the insertion sort sort.Slice runs on a short slice
insertByPath(sorted, d) ==
    IF sorted = <<>> THEN <<d>>
    ELSE IF StringLess(d.Path, sorted[Len(sorted)].Path)
    THEN Append(insertByPath(SubSeq(sorted, 1, Len(sorted) - 1), d), sorted[Len(sorted)])
    ELSE Append(sorted, d)

RECURSIVE sortByPath(_)
\* sort.Slice(diffs, func(i, j) { return diffs[i].Path < diffs[j].Path })
sortByPath(ds) ==
    IF ds = <<>> THEN <<>>
    ELSE insertByPath(sortByPath(SubSeq(ds, 1, Len(ds) - 1)), ds[Len(ds)])

\* the lines printDiffSection writes for one entry of a block
printDiffEntry(d, diffType) ==
    (IF diffType = DiffTypeAdded
     THEN <<"  " \o green("+") \o " " \o cyan(d.Path)>> \o printValue("      ", d.Value2, "32")
     ELSE IF diffType = DiffTypeRemoved
     THEN <<"  " \o red("-") \o " " \o cyan(d.Path)>> \o printValue("      ", d.Value1, "31")
     ELSE <<"  " \o yellow("~") \o " " \o cyan(d.Path)>>
          \o Decorate(printValue("        ", d.Value1, "31"), "      " \o red("-") \o " ", "")
          \o Decorate(printValue("        ", d.Value2, "32"), "      " \o green("+") \o " ", ""))
    \o <<"">>

\* mutant: the block keeps the order of the flattened leaves
printDiffSectionUnsorted(title, ds, diffType) ==
    IF Len(ds) = 0 THEN <<>>
    ELSE <<bold(title \o ":"), "">>
         \o Concat([i \in 1..Len(ds) |-> printDiffEntry(ds[i], diffType)])

\* printDiffSection(w, title, diffs, diffType)
printDiffSection(title, ds, diffType) ==
    IF Len(ds) = 0 THEN <<>>
    ELSE LET sorted == sortByPath(ds)
         IN <<bold(title \o ":"), "">>
            \o Concat([i \in 1..Len(sorted) |-> printDiffEntry(sorted[i], diffType)])

\* the members of a slice of diffs that have the given kind, in order
ofType(ds, type) == SelectSeq(ds, LAMBDA d : d.Type = type)

\* the first two lines of either renderer
Header(n1, n2) == <<bold("Comparing: " \o n1 \o " <-> " \o n2), Rule>>

\* PrintGitStyleDiff(w, diff, name1, name2)
PrintGitStyleDiff(d, n1, n2) ==
    Header(n1, n2) \o
    IF d.Type = DiffTypeEqual THEN <<NoDifferences>>
    ELSE LET all == GetAllDiffs(d)
             added == ofType(all, DiffTypeAdded)
             removed == ofType(all, DiffTypeRemoved)
             modified == ofType(all, DiffTypeModified)
             total == Len(added) + Len(removed) + Len(modified)
         IN IF Len(all) = 0 THEN <<NoDifferences>>
            ELSE <<"", bold("Summary: " \o ToString(total) \o " difference(s) found")>>
                 \o (IF Len(added) > 0
                     THEN <<"  " \o green("+") \o " " \o ToString(Len(added)) \o " field(s)">>
                     ELSE <<>>)
                 \o (IF Len(removed) > 0
                     THEN <<"  " \o red("-") \o " " \o ToString(Len(removed)) \o " field(s)">>
                     ELSE <<>>)
                 \o (IF Len(modified) > 0
                     THEN <<"  " \o yellow("~") \o " " \o ToString(Len(modified)) \o " field(s)">>
                     ELSE <<>>)
                 \o <<"">>
                 \o printDiffSection("Added Fields", added, DiffTypeAdded)
                 \o printDiffSection("Removed Fields", removed, DiffTypeRemoved)
                 \o printDiffSection("Modified Fields", modified, DiffTypeModified)

(***************************************************************************)
(* The hierarchical renderer (internal/compare/output_v2.go).              *)
(***************************************************************************)
RECURSIVE extractTopLevelField(_)
\* extractTopLevelField(path): the text before the first '.' or '['
extractTopLevelField(path) ==
    IF path = "" THEN ""
    ELSE IF Head(path) \in {".", "["} THEN ""
    ELSE Head(path) \o extractTopLevelField(Tail(path))

\* strings.HasPrefix(key, "[")
HasBracketPrefix(key) == key # "" /\ Head(key) = "["

\* isArrayDiff(diff)
isArrayDiff(d) ==
    /\ DOMAIN d.Children # {}
    /\ \A key \in DOMAIN d.Children : HasBracketPrefix(key)

RECURSIVE scanDigits(_, _)
\* the %d of Sscanf: the number the leading decimal digits of s spell after acc
scanDigits(s, acc) ==
    IF s = "" \/ Head(s) \notin {"0", "1", "2", "3", "4", "5", "6", "7", "8", "9"} THEN acc
    ELSE scanDigits(Tail(s), acc * 10 + (Byte(Head(s)) - Byte("0")))

\* fmt.Sscanf(key, "[%d]", &idx): idx stays 0 when no number follows the '['
scanIndex(key) == IF HasBracketPrefix(key) THEN scanDigits(Tail(key), 0) ELSE 0

\* strings.Repeat("  ", indent)
RECURSIVE indentOf(_)
indentOf(indent) == IF indent = 0 THEN "" ELSE "  " \o indentOf(indent - 1)

\* printInlineValue(w, value, colorFunc): always one line
printInlineValue(value, code) ==
    IF value = Nil THEN colorize(code, "<nil>")
    ELSE IF value.t \in {"object", "array"} THEN colorize(code, jsonMarshal(value))
    ELSE IF value.t = "string" THEN colorize(code, Quote(value.v))
    ELSE colorize(code, value.v)

\* what the Go runtime reports when the recursion of a renderer does not end
StackOverflow == "fatal error: stack overflow"

\* the kind that marks, in an unfolded tree, a node the traversal can only
\* reach by passing through some node twice
DiffTypeCycle == "cycle"

RECURSIVE printNestedChange(_, _, _)
\* printNestedChange(w, indent, key, diff)
printNestedChange(indent, key, d) ==
    IF d.Type = DiffTypeCycle THEN <<StackOverflow>>
    ELSE IF d.Type = DiffTypeAdded
    THEN <<indent \o "  " \o green("+") \o " " \o key \o ": " \o printInlineValue(d.Value2, "32")>>
    ELSE IF d.Type = DiffTypeRemoved
    THEN <<indent \o "  " \o red("-") \o " " \o key \o ": " \o printInlineValue(d.Value1, "31")>>
    ELSE IF d.Type = DiffTypeModified
    THEN <<indent \o "  " \o yellow("~") \o " " \o key>>
         \o (IF DOMAIN d.Children # {}
             THEN LET keys == SortStrings(DOMAIN d.Children)
                  IN Concat([i \in 1..Len(keys) |->
                                printNestedChange(indent \o "  ", keys[i], d.Children[keys[i]])])
             ELSE <<indent \o "      " \o red("-") \o " " \o printInlineValue(d.Value1, "31"),
                    indent \o "      " \o green("+") \o " " \o printInlineValue(d.Value2, "32")>>)
    ELSE <<>>

\* the iteration order of a map's keys that the run happens to take: the
\* sorted order or its reverse
RangeOrder(keys, rev) ==
    LET sorted == SortStrings(keys)
    IN IF rev THEN [i \in 1..Len(sorted) |-> sorted[Len(sorted) + 1 - i]] ELSE sorted

RECURSIVE sortInts(_)
\* sort.Ints(indices), as the ascending sequence of a bag of integers given as
\* a sequence
sortInts(indices) ==
    IF indices = <<>> THEN <<>>
    ELSE LET at == CHOOSE i \in 1..Len(indices) :
                       \A j \in 1..Len(indices) : indices[i] <= indices[j]
         IN <<indices[at]>>
            \o sortInts([j \in 1..(Len(indices) - 1) |->
                           IF j < at THEN indices[j] ELSE indices[j + 1]])

\* the lines printArrayDiff writes for the element idx
printArrayElement(elementIndent, idx, child) ==
    IF child.Type = DiffTypeCycle THEN <<StackOverflow>>
    ELSE IF child.Type = DiffTypeAdded
    THEN <<elementIndent \o green("+") \o " [" \o ToString(idx) \o "] "
               \o printInlineValue(child.Value2, "32")>>
    ELSE IF child.Type = DiffTypeRemoved
    THEN <<elementIndent \o red("-") \o " [" \o ToString(idx) \o "] "
               \o printInlineValue(child.Value1, "31")>>
    ELSE IF child.Type = DiffTypeModified
    THEN IF DOMAIN child.Children # {}
         THEN <<elementIndent \o yellow("~") \o " [" \o ToString(idx) \o "] (modified)">>
              \o LET keys == SortStrings(DOMAIN child.Children)
                 IN Concat([i \in 1..Len(keys) |->
                               printNestedChange(elementIndent \o "  ", keys[i],
                                                 child.Children[keys[i]])])
         ELSE <<elementIndent \o yellow("~") \o " [" \o ToString(idx) \o "]",
                elementIndent \o "    " \o red("-") \o " " \o printInlineValue(child.Value1, "31"),
                elementIndent \o "    " \o green("+") \o " " \o printInlineValue(child.Value2, "32")>>
    ELSE <<>>

\* printArrayDiff(w, fieldName, arrayDiff, indent); the children are ranged
\* over in the order RangeOrder(_, rev), and childMap keeps, for an index, the
\* child ranged over last
printArrayDiff(fieldName, arrayDiff, indent, rev) ==
    LET indentStr == indentOf(indent)
        order == RangeOrder(DOMAIN arrayDiff.Children, rev)
        indices == sortInts([i \in 1..Len(order) |-> scanIndex(order[i])])
        last(idx) == CHOOSE i \in 1..Len(order) :
                         /\ scanIndex(order[i]) = idx
                         /\ \A j \in (i + 1)..Len(order) : scanIndex(order[j]) # idx
    IN <<indentStr \o yellow("~") \o " " \o cyan(fieldName) \o " (array with changes)">>
       \o Concat([i \in 1..Len(indices) |->
                     printArrayElement(indentStr \o "    ", indices[i],
                                       arrayDiff.Children[order[last(indices[i])]])])

RECURSIVE printFieldDiff(_, _, _, _)
\* printFieldDiff(w, fieldName, fieldDiff, indent)
printFieldDiff(fieldName, fieldDiff, indent, rev) ==
    LET indentStr == indentOf(indent)
    IN IF fieldDiff.Type = DiffTypeCycle THEN <<StackOverflow>>
       ELSE IF isArrayDiff(fieldDiff) THEN printArrayDiff(fieldName, fieldDiff, indent, rev)
       ELSE IF DOMAIN fieldDiff.Children # {} /\ fieldDiff.Type = DiffTypeModified
       THEN <<indentStr \o yellow("~") \o " " \o cyan(fieldName)>>
            \o LET keys == SortStrings(DOMAIN fieldDiff.Children)
               IN Concat([i \in 1..Len(keys) |->
                             printFieldDiff(keys[i], fieldDiff.Children[keys[i]], indent + 1, rev)])
       ELSE IF fieldDiff.Type = DiffTypeAdded
       THEN <<indentStr \o green("+") \o " " \o cyan(fieldName)>>
            \o printValue(indentStr \o "    ", fieldDiff.Value2, "32")
       ELSE IF fieldDiff.Type = DiffTypeRemoved
       THEN <<indentStr \o red("-") \o " " \o cyan(fieldName)>>
            \o printValue(indentStr \o "    ", fieldDiff.Value1, "31")
       ELSE IF fieldDiff.Type = DiffTypeModified
       THEN <<indentStr \o yellow("~") \o " " \o cyan(fieldName)>>
            \o Decorate(printValue(indentStr \o "      ", fieldDiff.Value1, "31"),
                        indentStr \o "    " \o red("-") \o " ", "")
            \o Decorate(printValue(indentStr \o "      ", fieldDiff.Value2, "32"),
                        indentStr \o "    " \o green("+") \o " ", "")
       ELSE <<>>

(***************************************************************************)
(* The nodes of a tree are shared by pointer.  getTopLevelDiffs writes to  *)
(* the children of the root: it stores one child under another and sets    *)
(* the kind of the node it stored into.  `h` records these writes: for a   *)
(* key of the root that has been written to, the kind the node has now and *)
(* the keys of the root whose nodes were stored into its Children.         *)
(***************************************************************************)
\* no node has been written to
NoWrites == <<>>

\* the kind the child `key` of the root has now
TypeOf(d, h, key) == IF key \in DOMAIN h THEN h[key].Type ELSE d.Children[key].Type

\* the keys of the root whose nodes were stored into the child `key`
LinksOf(h, key) == IF key \in DOMAIN h THEN h[key].Links ELSE {}

RECURSIVE getTopLevelDiffsLoop(_, _, _, _)
\* the loop of getTopLevelDiffs over the keys of diff.Children in the order
\* the map is ranged over; `result` maps a top-level field name to the key of
\* the root whose node it holds
getTopLevelDiffsLoop(d, order, result, h) ==
    IF order = <<>> THEN [result |-> result, heap |-> h]
    ELSE LET key == Head(order)
             topField == extractTopLevelField(key)
         IN IF topField \in DOMAIN result
            THEN LET existing == result[topField]
                     written == [Type |-> IF TypeOf(d, h, key) # DiffTypeEqual
                                          THEN DiffTypeModified
                                          ELSE TypeOf(d, h, existing),
                                 Links |-> LinksOf(h, existing) \cup {key}]
                 IN getTopLevelDiffsLoop(d, Tail(order), result,
                        [k \in DOMAIN h \cup {existing} |->
                            IF k = existing THEN written ELSE h[k]])
            ELSE getTopLevelDiffsLoop(d, Tail(order),
                     [f \in DOMAIN result \cup {topField} |->
                         IF f = topField THEN key ELSE result[f]], h)

\* getTopLevelDiffs(diff), the keys of diff.Children ranged over in `order`
getTopLevelDiffs(d, h, order) == getTopLevelDiffsLoop(d, order, <<>>, h)

RECURSIVE NodeAt(_, _, _, _)
\* the node the child `key` of the root points to, as a traversal sees it:
\* its own children, and under the keys stored into it the nodes of those
\* keys.  `fuel` is the number of stored pointers the traversal may follow;
\* a path that follows more pointers than the root has children passes
\* through some node twice and never ends.
NodeAt(d, h, key, fuel) ==
    LET base == d.Children[key]
    IN IF key \notin DOMAIN h THEN base
       ELSE [base EXCEPT
                !.Type = h[key].Type,
                !.Children = [k \in DOMAIN base.Children \cup h[key].Links |->
                                 IF k \in h[key].Links
                                 THEN IF fuel = 0
                                      THEN Diff(base.Path, DiffTypeCycle, Nil, Nil, NoChildren)
                                      ELSE NodeAt(d, h, k, fuel - 1)
                                 ELSE base.Children[k]]]

\* the tree below the root as a traversal sees it after the writes h
TreeAt(d, h) ==
    [d EXCEPT !.Children = [k \in DOMAIN d.Children |->
                               NodeAt(d, h, k, Cardinality(DOMAIN d.Children))]]

\* PrintGitStyleDiffV2(w, diff, name1, name2) once getTopLevelDiffs has
\* returned `top`
PrintGitStyleDiffV2(d, top, n1, n2, rev) ==
    Header(n1, n2) \o
    IF d.Type = DiffTypeEqual \/ DOMAIN top.result = {} THEN <<NoDifferences>>
    ELSE LET fields == SortStrings(DOMAIN top.result)
             tree == TreeAt(d, top.heap)
         IN <<"">> \o Concat([i \in 1..Len(fields) |->
                                printFieldDiff(fields[i],
                                               tree.Children[top.result[fields[i]]], 0, rev)
                                    \o <<"">>])

(***************************************************************************)
(* Rendering a compared tree, and rendering it again: each render is one   *)
(* of the two renderers, run on the tree as the render before it left it.  *)
(***************************************************************************)
\* field names at the root of a rendered document; the second contains a '.'
RenderKeys == {"tags", "tags.id"}

\* what an array element or a nested field of a rendered document holds
RenderScalars == {Number("1"), Number("2")}

\* what the field tags of a rendered document holds: a scalar, an array of
\* scalars, an object, an array of one object, or an array of one array
RenderValues ==
    {Nil, Number("1"), String("1")}
        \cup {Array(s) : s \in SeqsUpTo(MaxNodes - 1, RenderScalars)}
        \cup {Object(m) : m \in MapsOver(InnerKeys, RenderScalars)}
        \cup {Array(<<Object(m)>>) : m \in [InnerKeys -> RenderScalars]}
        \cup {Array(<<Array(e)>>) : e \in SeqsUpTo(1, RenderScalars)}

\* the documents that are compared and rendered
RenderDocuments ==
    {m \in MapsOver(RenderKeys, RenderValues) :
        /\ ("tags.id" \in DOMAIN m) => m["tags.id"] \in RenderScalars
        /\ Size(Object(m)) <= MaxNodes + 1}

InitRender ==
    /\ obj1 \in RenderDocuments
    /\ obj2 \in RenderDocuments
    /\ config = EmptyConfig
    /\ showAll = FALSE
    /\ diff = NoDiff
    /\ diffs = <<>>
    /\ pc = "input"
    /\ heap = NoWrites
    /\ outs = <<>>
    /\ name1 = "vm-1"
    /\ name2 \in {"vm-1", "vm-2"}
    /\ NoCommand

\* the orders in which a map with the keys S can be ranged over
Orders(S) ==
    {s \in [1..Cardinality(S) -> S] : \A i, j \in 1..Cardinality(S) : i # j => s[i] # s[j]}

RECURSIVE UpToOverflow(_)
\* the lines written until the stack overflows
UpToOverflow(lines) ==
    IF lines = <<>> THEN <<>>
    ELSE IF Head(lines) = StackOverflow THEN <<StackOverflow>>
    ELSE <<Head(lines)>> \o UpToOverflow(Tail(lines))

\* what one render leaves behind: the renderer, the lines written and
\* whether the process died of a stack overflow
Rendered(style, lines) ==
    [style |-> style,
     text |-> UpToOverflow(lines),
     overflow |-> \E i \in 1..Len(lines) : lines[i] = StackOverflow]

\* PrintGitStyleDiff(w, diff, name1, name2)
DoPrintGitStyleDiff ==
    /\ pc \in {"compared", "rendered"}
    /\ LET tree == TreeAt(diff, heap)
           cyclic == /\ tree.Type # DiffTypeEqual
                     /\ \E i \in 1..Len(GetAllDiffs(tree)) :
                            GetAllDiffs(tree)[i].Type = DiffTypeCycle
           out == Rendered("grouped",
                           IF cyclic THEN Header(name1, name2) \o <<StackOverflow>>
                           ELSE PrintGitStyleDiff(tree, name1, name2))
       IN /\ outs' = Append(outs, out)
          /\ pc' = IF out.overflow THEN "crashed"
                   ELSE IF pc = "compared" THEN "rendered" ELSE "rerendered"
    /\ UNCHANGED <<obj1, obj2, config, showAll, diff, diffs, heap, name1, name2, cmdVars>>

\* PrintGitStyleDiffV2(w, diff, name1, name2)
DoPrintGitStyleDiffV2 ==
    /\ pc \in {"compared", "rendered"}
    /\ \E order \in Orders(DOMAIN diff.Children) : \E rev \in BOOLEAN :
           LET top == IF diff.Type = DiffTypeEqual
                      THEN [result |-> <<>>, heap |-> heap]
                      ELSE getTopLevelDiffs(diff, heap, order)
               out == Rendered("hierarchical",
                               PrintGitStyleDiffV2(diff, top, name1, name2, rev))
           IN /\ heap' = top.heap
              /\ outs' = Append(outs, out)
              /\ pc' = IF out.overflow THEN "crashed"
                   ELSE IF pc = "compared" THEN "rendered" ELSE "rerendered"
    /\ UNCHANGED <<obj1, obj2, config, showAll, diff, diffs, name1, name2, cmdVars>>

NextRender == DoCompare \/ DoPrintGitStyleDiff \/ DoPrintGitStyleDiffV2

SpecRender == InitRender /\ [][NextRender]_vars


\* the text a first hierarchical render of diff writes when the root's
\* children are ranged over in `order`
FirstRenderV2(order, rev) ==
    UpToOverflow(PrintGitStyleDiffV2(diff,
                     IF diff.Type = DiffTypeEqual
                     THEN [result |-> <<>>, heap |-> NoWrites]
                     ELSE getTopLevelDiffs(diff, NoWrites, order),
                     name1, name2, rev))

(***************************************************************************)
(* C14  Idempotent, deterministic rendering: two renders of one tree in    *)
(* the same style and with the same names write byte-identical text, and   *)
(* the text of a render is the same for every order in which the maps of   *)
(* the tree are ranged over.                                               *)
(***************************************************************************)
C14_IdempotentRendering ==
    /\ \A i, j \in 1..Len(outs) :
           outs[i].style = outs[j].style => outs[i].text = outs[j].text
    /\ (Len(outs) >= 1 /\ outs[1].style = "hierarchical") =>
           \A order \in Orders(DOMAIN diff.Children) : \A rev \in BOOLEAN :
               outs[1].text = FirstRenderV2(order, rev)
    /\ (Len(outs) >= 1 /\ outs[1].style = "grouped") =>
           outs[1].text = PrintGitStyleDiff(diff, name1, name2)

(***************************************************************************)
(* C15  Totality: Compare, GetAllDiffs and both renderers end without      *)
(* error or unbounded recursion on every pair of finite documents, also    *)
(* when the tree is rendered more than once.                               *)
(***************************************************************************)
C15_Totality ==
    /\ pc # "crashed"
    /\ \A i \in 1..Len(outs) : ~outs[i].overflow

\* the positions of a line in a text
Positions(text, line) == {i \in 1..Len(text) : text[i] = line}

\* the first line of the entry printDiffSection writes for a leaf
EntryLine(d) ==
    "  " \o (IF d.Type = DiffTypeAdded THEN green("+")
             ELSE IF d.Type = DiffTypeRemoved THEN red("-")
             ELSE yellow("~")) \o " " \o cyan(d.Path)

\* the title line of the block of a kind
TitleLine(type) ==
    bold((IF type = DiffTypeAdded THEN "Added Fields"
          ELSE IF type = DiffTypeRemoved THEN "Removed Fields"
          ELSE "Modified Fields") \o ":")

\* the line of the summary that counts the leaves of a kind
CountLine(type, n) ==
    "  " \o (IF type = DiffTypeAdded THEN green("+")
             ELSE IF type = DiffTypeRemoved THEN red("-")
             ELSE yellow("~")) \o " " \o ToString(n) \o " field(s)"

\* the kinds of the three blocks in the order of the claim
BlockOrder == <<DiffTypeAdded, DiffTypeRemoved, DiffTypeModified>>

\* the last render was a grouped one; the tree it rendered is TreeAt(diff, heap)
LastGrouped ==
    /\ Len(outs) >= 1
    /\ outs[Len(outs)].style = "grouped"
    /\ ~outs[Len(outs)].overflow

\* what the grouped-structure claim asks of the text of a tree with the
\* leaves `leaves`
GroupedStructure(text, leaves) ==
    LET bucket(type) == ofType(leaves, type)
        titleAt(type) == CHOOSE i \in Positions(text, TitleLine(type)) : TRUE
        \* the lines of the block of a kind: from its title to the next title
        blockOf(type) ==
            {i \in 1..Len(text) :
                /\ i > titleAt(type)
                /\ \A other \in {DiffTypeAdded, DiffTypeRemoved, DiffTypeModified} :
                       (Len(bucket(other)) > 0 /\ titleAt(other) > titleAt(type))
                           => i < titleAt(other)}
    IN /\ Positions(text, bold("Summary: " \o ToString(Len(leaves)) \o " difference(s) found"))
              = {4}
       /\ Len(leaves) = Len(bucket(DiffTypeAdded)) + Len(bucket(DiffTypeRemoved))
                            + Len(bucket(DiffTypeModified))
       /\ \A b \in 1..3 :
              LET type == BlockOrder[b]
              IN /\ Cardinality(Positions(text, TitleLine(type)))
                        = (IF Len(bucket(type)) > 0 THEN 1 ELSE 0)
                 /\ Cardinality(Positions(text, CountLine(type, Len(bucket(type)))))
                        = (IF Len(bucket(type)) > 0 THEN 1 ELSE 0)
                 /\ \A c \in (b + 1)..3 :
                        (Len(bucket(type)) > 0 /\ Len(bucket(BlockOrder[c])) > 0)
                            => titleAt(type) < titleAt(BlockOrder[c])
       /\ \A i \in 1..Len(leaves) :
              /\ Cardinality(Positions(text, EntryLine(leaves[i])))
                     = Cardinality({j \in 1..Len(leaves) :
                                        /\ leaves[j].Path = leaves[i].Path
                                        /\ leaves[j].Type = leaves[i].Type})
              /\ Positions(text, EntryLine(leaves[i])) \subseteq blockOf(leaves[i].Type)
       /\ \A i, j \in 1..Len(leaves) :
              (leaves[i].Type = leaves[j].Type /\ StringLess(leaves[i].Path, leaves[j].Path))
                  => \A p \in Positions(text, EntryLine(leaves[i])) :
                         \A q \in Positions(text, EntryLine(leaves[j])) : p < q

C16_WitnessOrder ==
    /\ LastGrouped
    /\ heap = NoWrites
    /\ Len(GetAllDiffs(diff)) = 2
    /\ GetAllDiffs(diff)[1].Type = DiffTypeAdded
    /\ GetAllDiffs(diff)[2].Type = DiffTypeAdded
    /\ StringLess(GetAllDiffs(diff)[2].Path, GetAllDiffs(diff)[1].Path)

(***************************************************************************)
(* Loading the configuration (internal/config/config.go, Load).  A config  *)
(* file is its path, whether the path can be read, and what the YAML       *)
(* parser makes of its bytes.  A *Config is a sequence of length at most   *)
(* one: the empty sequence is nil.  An error is its message; "" is nil.    *)
(***************************************************************************)
\* the content of a file as yaml.Unmarshal sees it: whether it parses, and
\* the two lists (a key that is absent leaves its list empty)
Yaml(valid, fields, patterns) ==
    [valid |-> valid, ignore_fields |-> fields, ignore_patterns |-> patterns]

\* a file whose path is `path`; state is "file", "missing" or "unreadable"
ConfigFile(path, state, yaml) == [path |-> path, state |-> state, yaml |-> yaml]

\* the message of the error os.ReadFile returns for a file that is not there
ErrNotExist == "open: no such file or directory"

\* os.ReadFile(path)
ReadFile(file) ==
    IF file.state = "file" THEN [data |-> file.yaml, err |-> ""]
    ELSE IF file.state = "missing" THEN [data |-> Yaml(FALSE, <<>>, <<>>), err |-> ErrNotExist]
    ELSE [data |-> Yaml(FALSE, <<>>, <<>>), err |-> "open: permission denied"]

\* os.IsNotExist(err)
IsNotExist(e) == e = ErrNotExist

\* yaml.Unmarshal(data, &cfg)
yamlUnmarshal(data) ==
    IF data.valid
    THEN [cfg |-> Config(data.ignore_fields, data.ignore_patterns), err |-> ""]
    ELSE [cfg |-> Config(<<>>, <<>>), err |-> "yaml: unmarshal errors"]

\* mutant: the lists of the file are added to the defaults
LoadMergingDefaults(file) ==
    IF file.path = "" THEN [cfg |-> <<Default>>, err |-> ""]
    ELSE LET read == ReadFile(file)
             parsed == yamlUnmarshal(read.data)
         IN IF read.err # ""
            THEN IF IsNotExist(read.err) THEN [cfg |-> <<Default>>, err |-> ""]
                 ELSE [cfg |-> <<>>, err |-> read.err]
            ELSE IF parsed.err # "" THEN [cfg |-> <<>>, err |-> parsed.err]
            ELSE [cfg |-> <<Config(Default.IgnoreFields \o parsed.cfg.IgnoreFields,
                                   Default.IgnorePatterns \o parsed.cfg.IgnorePatterns)>>,
                  err |-> ""]

\* Load(path)
Load(file) ==
    IF file.path = "" THEN [cfg |-> <<Default>>, err |-> ""]
    ELSE LET read == ReadFile(file)
             parsed == yamlUnmarshal(read.data)
         IN IF read.err # ""
            THEN IF IsNotExist(read.err) THEN [cfg |-> <<Default>>, err |-> ""]
                 ELSE [cfg |-> <<>>, err |-> read.err]
            ELSE IF parsed.err # "" THEN [cfg |-> <<>>, err |-> parsed.err]
            ELSE IF Len(parsed.cfg.IgnoreFields) = 0 /\ Len(parsed.cfg.IgnorePatterns) = 0
            THEN [cfg |-> <<Default>>, err |-> ""]
            ELSE [cfg |-> <<parsed.cfg>>, err |-> ""]

(***************************************************************************)
(* The JSON form of a Diff (the struct tags of Diff in diff.go).           *)
(***************************************************************************)
\* mutant: only path, type and value1 are written
marshalDiffWithoutValue2(d) ==
    LET always == {"path", "type"}
        present == always \cup (IF d.Value1 # Nil THEN {"value1"} ELSE {})
    IN Object([f \in present |->
                  IF f = "path" THEN String(d.Path)
                  ELSE IF f = "type" THEN String(d.Type)
                  ELSE d.Value1])

RECURSIVE marshalDiff(_)
\* the JSON document json.Marshal(diff) writes: path and type always, value1
\* and value2 unless nil, children unless empty (omitempty)
marshalDiff(d) ==
    LET present == {"path", "type"}
                       \cup (IF d.Value1 # Nil THEN {"value1"} ELSE {})
                       \cup (IF d.Value2 # Nil THEN {"value2"} ELSE {})
                       \cup (IF DOMAIN d.Children # {} THEN {"children"} ELSE {})
    IN Object([f \in present |->
                  IF f = "path" THEN String(d.Path)
                  ELSE IF f = "type" THEN String(d.Type)
                  ELSE IF f = "value1" THEN d.Value1
                  ELSE IF f = "value2" THEN d.Value2
                  ELSE Object([k \in DOMAIN d.Children |-> marshalDiff(d.Children[k])])])

RECURSIVE unmarshalDiff(_)
\* json.Unmarshal(document, &diff): a field that is absent keeps its zero value
unmarshalDiff(doc) ==
    Diff(IF "path" \in DOMAIN doc.v THEN doc.v["path"].v ELSE "",
         IF "type" \in DOMAIN doc.v THEN doc.v["type"].v ELSE "",
         IF "value1" \in DOMAIN doc.v THEN doc.v["value1"] ELSE Nil,
         IF "value2" \in DOMAIN doc.v THEN doc.v["value2"] ELSE Nil,
         IF "children" \in DOMAIN doc.v
         THEN [k \in DOMAIN doc.v["children"].v |-> unmarshalDiff(doc.v["children"].v[k])]
         ELSE NoChildren)

\* the fields of a struct in the order of their declaration, as they are
\* written between braces: one field after the other, separated by commas
jsonStruct(cur, indent, names, lines) ==
    <<"{">>
    \o Concat([i \in 1..Len(names) |->
                  Decorate(lines[i], cur \o indent \o Quote(names[i]) \o ": ",
                           IF i = Len(names) THEN "" ELSE ",")])
    \o <<cur \o "}">>

RECURSIVE marshalIndentDiff(_, _, _)
\* json.MarshalIndent(diff, prefix, indent) split at newlines
marshalIndentDiff(d, cur, indent) ==
    LET keys == SortStrings(DOMAIN d.Children)
        names == <<"path", "type">>
                     \o (IF d.Value1 # Nil THEN <<"value1">> ELSE <<>>)
                     \o (IF d.Value2 # Nil THEN <<"value2">> ELSE <<>>)
                     \o (IF DOMAIN d.Children # {} THEN <<"children">> ELSE <<>>)
        linesOf(f) ==
            IF f = "path" THEN <<Quote(d.Path)>>
            ELSE IF f = "type" THEN <<Quote(d.Type)>>
            ELSE IF f = "value1" THEN jsonMarshalIndent(d.Value1, cur \o indent, indent)
            ELSE IF f = "value2" THEN jsonMarshalIndent(d.Value2, cur \o indent, indent)
            ELSE jsonStruct(cur \o indent, indent, keys,
                            [i \in 1..Len(keys) |->
                                marshalIndentDiff(d.Children[keys[i]],
                                                  cur \o indent \o indent, indent)])
    IN jsonStruct(cur, indent, names, [i \in 1..Len(names) |-> linesOf(names[i])])

(***************************************************************************)
(* The commands (internal/cmd/resource.go runResource, compute.go          *)
(* runCompute).  A command runs from "start" to "done"; pc names the call  *)
(* it is about to make.                                                    *)
(***************************************************************************)
\* field names at the root of a fetched resource
ResourceKeys == {"name", "self_link", "selfLink", "tags"}

\* the fields that identify a resource
IdentifierKeys == {"name", "self_link", "selfLink"}

\* the resources gcloud may describe: one identifier (a name, or a
\* self link under either spelling), and tags that are null or an object
Resources ==
    {m \in MapsOver(ResourceKeys, {Nil, String("a"), String("b")}
                                      \cup {Object(o) : o \in [InnerKeys -> RenderScalars]}) :
        /\ Cardinality(DOMAIN m \cap IdentifierKeys) = 1
        /\ ("name" \in DOMAIN m) => m["name"].t = "string"
        /\ ("self_link" \in DOMAIN m) => m["self_link"] = String("a")
        /\ ("selfLink" \in DOMAIN m) => m["selfLink"] = String("b")
        /\ "tags" \in DOMAIN m
        /\ m["tags"].t \in {"null", "object"}}

\* what a fetch returns: a resource, or an error
FetchResults ==
    {[res |-> m, err |-> ""] : m \in Resources}
        \cup {[res |-> EmptyMap, err |-> "gcloud command failed: exit status 1"]}

\* what a fetch of an IAM policy returns
IAMResults ==
    {[res |-> [k \in {"etag"} |-> String("a")], err |-> ""],
     [res |-> EmptyMap, err |-> "gcloud command failed: exit status 1"]}

\* viper.ConfigFileUsed() and the file behind it
ConfigFiles ==
    {ConfigFile("", "missing", Yaml(FALSE, <<>>, <<>>)),
     ConfigFile(".gcdiff.yaml", "missing", Yaml(FALSE, <<>>, <<>>)),
     ConfigFile(".gcdiff.yaml", "unreadable", Yaml(TRUE, <<"tags">>, <<>>)),
     ConfigFile(".gcdiff.yaml", "file", Yaml(FALSE, <<>>, <<>>)),
     ConfigFile(".gcdiff.yaml", "file", Yaml(TRUE, <<>>, <<>>)),
     ConfigFile(".gcdiff.yaml", "file", Yaml(TRUE, <<"tags.id", "name">>, <<>>)),
     ConfigFile(".gcdiff.yaml", "file", Yaml(TRUE, <<>>, <<".*id$">>)),
     ConfigFile(".gcdiff.yaml", "file", Yaml(TRUE, <<"tags">>, <<".*id$", ".*Timestamp$">>))}

\* Load has not been called
NotLoaded == [cfg |-> <<>>, err |-> ""]

\* the runs of the two commands; --iam is run without a config file
InitCmd ==
    /\ command \in {"resource", "compute"}
    /\ project1 \in {"", "p"}
    /\ project2 \in {"", "p", "q"}
    /\ includeIAM \in BOOLEAN
    /\ (command = "compute") => ~includeIAM
    /\ format \in {"diff", "json"}
    /\ showAll \in BOOLEAN
    /\ cfgFile \in ConfigFiles
    /\ includeIAM => cfgFile.path = ""
    /\ resource1 = EmptyMap
    /\ resource2 = EmptyMap
    /\ loaded = NotLoaded
    /\ cfg = EmptyConfig
    /\ stderr = <<>>
    /\ err = ""
    /\ obj1 = EmptyMap
    /\ obj2 = EmptyMap
    /\ config = EmptyConfig
    /\ diff = NoDiff
    /\ diffs = <<>>
    /\ heap = NoWrites
    /\ outs = <<>>
    /\ name1 = "vm-1"
    /\ name2 = "vm-2"
    /\ pc = "start"

\* buildGcloudCommand(resourcePath, name, project, flags) without location flags
buildGcloudCommand(verb, name, project) ==
    Join(<<"compute instances", verb, name>>
             \o (IF project # "" THEN <<"--project=" \o project>> ELSE <<>>), " ")

\* the line written to stderr before a fetch
Fetching(what, name, project) ==
    IF command = "compute"
    THEN "Fetching instance " \o name \o " from " \o project \o "/zone..."
    ELSE "Fetching " \o what \o " with: gcloud "
             \o buildGcloudCommand(IF what = "resource" THEN "describe" ELSE "get-iam-policy",
                                   name, project) \o "..."

\* the flags are read: project2 defaults to project1, project1 is required
RunStart ==
    /\ pc = "start"
    /\ project2' = IF project2 = "" THEN project1 ELSE project2
    /\ IF project1 = ""
       THEN err' = "--project1 is required" /\ pc' = "done"
       ELSE err' = err /\ pc' = IF command = "compute" THEN "client" ELSE "fetch1"
    /\ UNCHANGED <<obj1, obj2, config, showAll, diff, diffs, renderVars, command, project1,
                   includeIAM, format, cfgFile, resource1, resource2, loaded, cfg, stderr>>

\* gcp.NewComputeClient(ctx)
NewComputeClient ==
    /\ pc = "client"
    /\ \E ok \in BOOLEAN :
           IF ok THEN err' = err /\ pc' = "fetch1"
           ELSE err' = "failed to create GCP client" /\ pc' = "done"
    /\ UNCHANGED <<obj1, obj2, config, showAll, diff, diffs, renderVars, command, project1,
                   project2, includeIAM, format, cfgFile, resource1, resource2, loaded, cfg,
                   stderr>>

\* json.Marshal(inst) and json.Unmarshal into a map: a field of the instance
\* that is not set is not written
instanceToObject(inst) == [k \in {f \in DOMAIN inst : inst[f] # Nil} |-> inst[k]]

\* what the command compares for a fetched resource
Fetched(res) == IF command = "compute" THEN instanceToObject(res) ELSE res

\* the error the command returns when a fetch fails
FetchFailed(name, e) ==
    IF command = "compute" THEN "failed to fetch instance " \o name \o ": " \o e
    ELSE "failed to fetch resource: " \o e

\* mutant: a failed fetch of the first resource is recorded and the command
\* goes on to the second fetch
FetchResource1ContinuesOnError ==
    /\ pc = "fetch1"
    /\ stderr' = Append(stderr, Fetching("resource", name1, project1))
    /\ \E r \in FetchResults :
           IF r.err # ""
           THEN /\ err' = FetchFailed(name1, r.err)
                /\ pc' = "fetch2"
                /\ UNCHANGED resource1
           ELSE /\ resource1' = Fetched(r.res)
                /\ pc' = "fetch2"
                /\ UNCHANGED err
    /\ UNCHANGED <<obj1, obj2, config, showAll, diff, diffs, renderVars, command, project1,
                   project2, includeIAM, format, cfgFile, resource2, loaded, cfg>>

\* the first resource is fetched
FetchResource1 ==
    /\ pc = "fetch1"
    /\ stderr' = Append(stderr, Fetching("resource", name1, project1))
    /\ \E r \in FetchResults :
           IF r.err # ""
           THEN /\ err' = FetchFailed(name1, r.err)
                /\ pc' = "done"
                /\ UNCHANGED resource1
           ELSE /\ resource1' = Fetched(r.res)
                /\ pc' = "fetch2"
                /\ UNCHANGED err
    /\ UNCHANGED <<obj1, obj2, config, showAll, diff, diffs, renderVars, command, project1,
                   project2, includeIAM, format, cfgFile, resource2, loaded, cfg>>

\* the second resource is fetched
FetchResource2 ==
    /\ pc = "fetch2"
    /\ stderr' = Append(stderr, Fetching("resource", name2, project2))
    /\ \E r \in FetchResults :
           IF r.err # ""
           THEN /\ err' = FetchFailed(name2, r.err)
                /\ pc' = "done"
                /\ UNCHANGED resource2
           ELSE /\ resource2' = Fetched(r.res)
                /\ pc' = IF includeIAM THEN "iam1" ELSE "config"
                /\ UNCHANGED err
    /\ UNCHANGED <<obj1, obj2, config, showAll, diff, diffs, renderVars, command, project1,
                   project2, includeIAM, format, cfgFile, resource1, loaded, cfg>>

\* a resource with its IAM policy stored under iamPolicy
WithPolicy(res, policy) ==
    [k \in DOMAIN res \cup {"iamPolicy"} |-> IF k = "iamPolicy" THEN Object(policy) ELSE res[k]]

\* --iam: the IAM policy of the first resource is fetched; a failure is a warning
FetchIAMPolicy1 ==
    /\ pc = "iam1"
    /\ \E r \in IAMResults :
           IF r.err # ""
           THEN /\ stderr' = stderr \o <<Fetching("IAM policy", name1, project1),
                                         "Warning: could not fetch IAM policy for "
                                             \o name1 \o ": " \o r.err>>
                /\ UNCHANGED resource1
           ELSE /\ stderr' = Append(stderr, Fetching("IAM policy", name1, project1))
                /\ resource1' = WithPolicy(resource1, r.res)
    /\ pc' = "iam2"
    /\ UNCHANGED <<obj1, obj2, config, showAll, diff, diffs, renderVars, command, project1,
                   project2, includeIAM, format, cfgFile, resource2, loaded, cfg, err>>

\* --iam: the IAM policy of the second resource is fetched
FetchIAMPolicy2 ==
    /\ pc = "iam2"
    /\ \E r \in IAMResults :
           IF r.err # ""
           THEN /\ stderr' = stderr \o <<Fetching("IAM policy", name2, project2),
                                         "Warning: could not fetch IAM policy for "
                                             \o name2 \o ": " \o r.err>>
                /\ UNCHANGED resource2
           ELSE /\ stderr' = Append(stderr, Fetching("IAM policy", name2, project2))
                /\ resource2' = WithPolicy(resource2, r.res)
    /\ pc' = "config"
    /\ UNCHANGED <<obj1, obj2, config, showAll, diff, diffs, renderVars, command, project1,
                   project2, includeIAM, format, cfgFile, resource1, loaded, cfg, err>>

\* mutant: the name is not among the fields added within one project
SameProjectFieldsWithoutName == <<"self_link", "selfLink">>

\* the identifiers runResource adds to the rules within one project
SameProjectFields == <<"name", "self_link", "selfLink">>

\* cfg, err := config.Load(viper.ConfigFileUsed()); a failure is a warning
\* and the defaults are used; runResource then adds the same-project fields
LoadConfig ==
    /\ pc = "config"
    /\ LET ret == Load(cfgFile)
           used == IF ret.err # "" THEN Default ELSE ret.cfg[1]
       IN /\ loaded' = ret
          /\ cfg' = IF command = "resource" /\ project1 = project2
                    THEN Config(used.IgnoreFields \o SameProjectFields, used.IgnorePatterns)
                    ELSE used
          /\ stderr' = IF ret.err # ""
                       THEN Append(stderr, "Warning: could not load config: " \o ret.err)
                       ELSE stderr
    /\ pc' = "compare"
    /\ UNCHANGED <<obj1, obj2, config, showAll, diff, diffs, renderVars, command, project1,
                   project2, includeIAM, format, cfgFile, resource1, resource2, err>>

\* the two resources are compared and the tree is written in the format asked
\* for: JSON, or the text of the command's renderer
CompareAndOutput ==
    /\ pc = "compare"
    /\ LET d == Compare(NewDiffer(cfg, showAll), resource1, resource2)
       IN /\ diff' = d
          /\ IF format = "json"
             THEN LET out == Rendered("json", marshalIndentDiff(d, "", "  "))
                  IN /\ outs' = Append(outs, out)
                     /\ heap' = heap
                     /\ pc' = "done"
             ELSE IF command = "compute"
             THEN LET out == Rendered("grouped", PrintGitStyleDiff(d, name1, name2))
                  IN /\ outs' = Append(outs, out)
                     /\ heap' = heap
                     /\ pc' = "done"
             ELSE \E order \in Orders(DOMAIN d.Children) : \E rev \in BOOLEAN :
                      LET top == IF d.Type = DiffTypeEqual
                                 THEN [result |-> <<>>, heap |-> heap]
                                 ELSE getTopLevelDiffs(d, heap, order)
                          out == Rendered("hierarchical",
                                          PrintGitStyleDiffV2(d, top, name1, name2, rev))
                      IN /\ heap' = top.heap
                         /\ outs' = Append(outs, out)
                         /\ pc' = IF out.overflow THEN "crashed" ELSE "done"
    /\ UNCHANGED <<obj1, obj2, config, showAll, diffs, name1, name2, command, project1,
                   project2, includeIAM, format, cfgFile, resource1, resource2, loaded, cfg,
                   stderr, err>>

NextCmd ==
    \/ RunStart
    \/ NewComputeClient
    \/ FetchResource1
    \/ FetchResource2
    \/ FetchIAMPolicy1
    \/ FetchIAMPolicy2
    \/ LoadConfig
    \/ CompareAndOutput

SpecCmd == InitCmd /\ [][NextCmd]_vars

(***************************************************************************)
(* C18  Lossless serialization: for every tree returned by Compare,        *)
(* encoding the tree to the JSON record (path, type, value1, value2,       *)
(* children) and decoding it back yields the same tree: the same paths,    *)
(* kinds, child keys and before/after payloads at every node, including    *)
(* the nodes whose payload is null and the nodes with no children.         *)
(***************************************************************************)
\* Compare has returned and the tree has been written
Written == pc \in {"done", "crashed"} /\ outs # <<>>

C18_LosslessSerialization ==
    Written => unmarshalDiff(marshalDiff(diff)) = diff

\* a tree written as JSON that has a leaf with a null payload next to a node
\* with a child of its own
C18_Witness ==
    /\ Written
    /\ format = "json"
    /\ outs[1].style = "json"
    /\ \E k \in DOMAIN diff.Children :
           /\ diff.Children[k].Value1 = Nil
           /\ diff.Children[k].Value2 # Nil
           /\ DOMAIN diff.Children[k].Children = {}
    /\ \E k \in DOMAIN diff.Children : DOMAIN diff.Children[k].Children # {}

(***************************************************************************)
(* C19  Config Load outcomes: Load returns the built-in defaults with no   *)
(* error when the path is empty, when the file does not exist, or when the *)
(* parsed file has both ignore_fields and ignore_patterns empty; it        *)
(* returns an error and no config when the file cannot be read for another *)
(* reason or is malformed; otherwise it returns exactly the two lists of   *)
(* the file, in file order, with no default entry merged in.  It never     *)
(* returns both a config and an error.                                     *)
(***************************************************************************)
\* config.Load has returned
LoadReturned == pc = "compare" \/ Written

\* the file has nothing to say: no path, no file, or a file without rules
FallsBack(file) ==
    \/ file.path = ""
    \/ file.state = "missing"
    \/ /\ file.state = "file"
       /\ file.yaml.valid
       /\ file.yaml.ignore_fields = <<>>
       /\ file.yaml.ignore_patterns = <<>>

\* the file is there and cannot be read, or what it holds is not YAML
Fails(file) ==
    /\ file.path # ""
    /\ \/ file.state = "unreadable"
       \/ file.state = "file" /\ ~file.yaml.valid

C19_LoadOutcomes ==
    LoadReturned =>
        /\ FallsBack(cfgFile) => loaded = [cfg |-> <<Default>>, err |-> ""]
        /\ Fails(cfgFile) => loaded.cfg = <<>> /\ loaded.err # ""
        /\ (~FallsBack(cfgFile) /\ ~Fails(cfgFile)) =>
               /\ loaded.err = ""
               /\ Len(loaded.cfg) = 1
               /\ loaded.cfg[1].IgnoreFields = cfgFile.yaml.ignore_fields
               /\ loaded.cfg[1].IgnorePatterns = cfgFile.yaml.ignore_patterns
        /\ (loaded.cfg = <<>>) <=> (loaded.err # "")

\* a file that sets only ignore_patterns has been loaded: the list of exact
\* fields is empty
C19_Witness ==
    /\ LoadReturned
    /\ cfgFile.state = "file"
    /\ cfgFile.yaml.ignore_fields = <<>>
    /\ cfgFile.yaml.ignore_patterns # <<>>
    /\ loaded.err = ""
    /\ loaded.cfg[1].IgnoreFields = <<>>
    /\ loaded.cfg[1] # Default

\* a file that cannot be read has been given to Load
C19_WitnessError ==
    /\ LoadReturned
    /\ cfgFile.state = "unreadable"
    /\ loaded.cfg = <<>>

(***************************************************************************)
(* C20  A configuration load failure is fatal for the comparison: in the   *)
(* resource and compute commands, if config.Load returns an error, the     *)
(* command ends with an error and emits no diff output; it does not        *)
(* continue with the default rule set.                                     *)
(***************************************************************************)
\* the command has ended
Ended == pc \in {"done", "crashed"}

C20_LoadFailureFatal ==
    (Ended /\ loaded.err # "") => (err # "" /\ outs = <<>>)

\* what the commands do instead: the failure is a line on stderr, the rules
\* are the defaults (with the same-project fields in runResource), a tree is
\* written and the command returns nil
C20_LoadFailureIsWarning ==
    (Ended /\ loaded.err # "") =>
        /\ err = ""
        /\ outs # <<>>
        /\ stderr[Len(stderr)] = "Warning: could not load config: " \o loaded.err
        /\ cfg = IF command = "resource" /\ project1 = project2
                 THEN Config(Default.IgnoreFields \o SameProjectFields, Default.IgnorePatterns)
                 ELSE Default

(***************************************************************************)
(* C21  Same-project versus cross-project filtering in runResource: when   *)
(* project2 is unset or equal to project1 and show-all is false, a         *)
(* difference at the root paths name, selfLink or self_link is never       *)
(* reported, whatever the loaded config contains; when the projects        *)
(* differ, a difference in the root field name is reported unless the      *)
(* loaded config itself lists name; with show-all true the differences     *)
(* are reported in both cases.                                             *)
(***************************************************************************)
\* runResource has compared the two resources and written the tree
ResourceWritten == Written /\ command = "resource"

\* the two fetched resources differ in the root field k
Differs(k) ==
    \/ (k \in DOMAIN resource1) # (k \in DOMAIN resource2)
    \/ /\ k \in DOMAIN resource1
       /\ k \in DOMAIN resource2
       /\ resource1[k] # resource2[k]

\* the lines that open the entry of the root field k in what was written
EntryLines(style, k) ==
    IF style = "json" THEN {"    " \o Quote(k) \o ": {"}
    ELSE {indentOf(0) \o mark \o " " \o cyan(k) : mark \in {green("+"), red("-"), yellow("~")}}

\* the root field k is in the tree, among the leaves, and in the output
Reported(k) ==
    /\ k \in DOMAIN diff.Children
    /\ \E i \in DOMAIN GetAllDiffs(diff) : GetAllDiffs(diff)[i].Path = k
    /\ EntryLines(outs[1].style, k) \cap Range(outs[1].text) # {}

\* the root field k is neither in the tree nor in the output
Unreported(k) ==
    /\ k \notin DOMAIN diff.Children
    /\ \A i \in DOMAIN GetAllDiffs(diff) : GetAllDiffs(diff)[i].Path # k
    /\ EntryLines(outs[1].style, k) \cap Range(outs[1].text) = {}

\* the rules config.Load gave the command (the defaults when it failed)
LoadedRules == IF loaded.err # "" THEN Default ELSE loaded.cfg[1]

C21_ProjectFiltering ==
    ResourceWritten =>
        /\ (project1 = project2 /\ ~showAll) =>
               \A k \in IdentifierKeys : Unreported(k)
        /\ (project1 # project2 /\ ~showAll /\ Differs("name")) =>
               IF ShouldIgnore(LoadedRules, "name") THEN Unreported("name")
               ELSE Reported("name")
        /\ showAll => \A k \in IdentifierKeys : Differs(k) => Reported(k)

\* within one project two resources of different names were compared under
\* a config file that does not list name, and name is not reported
C21_Witness ==
    /\ ResourceWritten
    /\ project1 = project2
    /\ ~showAll
    /\ loaded.err = ""
    /\ loaded.cfg[1] # Default
    /\ ~ShouldIgnore(loaded.cfg[1], "name")
    /\ "name" \in DOMAIN resource1
    /\ "name" \in DOMAIN resource2
    /\ Differs("name")
    /\ Unreported("name")

\* across two projects the same pair of resources has its name reported
C21_WitnessCross ==
    /\ ResourceWritten
    /\ project1 # project2
    /\ ~showAll
    /\ "name" \in DOMAIN resource1
    /\ "name" \in DOMAIN resource2
    /\ Differs("name")
    /\ Reported("name")

\* within one project, a self link under either spelling is not reported
C21_WitnessSelfLink ==
    /\ ResourceWritten
    /\ project1 = project2
    /\ ~showAll
    /\ Differs("self_link")
    /\ Differs("selfLink")
    /\ Unreported("self_link")

(***************************************************************************)
(* C22  Kind invariant: in every tree returned by Compare, a node has kind *)
(* Equal if and only if it has no own value difference and no non-Equal    *)
(* child, and every node that has at least one non-Equal child has kind    *)
(* Modified (never Added, Removed or Equal).                               *)
(***************************************************************************)
\* a and b are two objects or two arrays: the node that compares them has
\* no value of its own, only children
Containers(a, b) == a.t = b.t /\ a.t \in {"object", "array"}

\* the node that compares a with b finds a difference of its own
OwnDifference(a, b) ==
    IF Containers(a, b) THEN FALSE
    ELSE IF a.t # b.t THEN TRUE
    ELSE a.v # b.v

\* the children of `node` that are not Equal
NonEqualChildren(node) ==
    {k \in DOMAIN node.Children : node.Children[k].Type # DiffTypeEqual}

\* a node for a key or index present on one side only: the difference is its own
OneSidedKind(node) ==
    /\ node.Type # DiffTypeEqual
    /\ NonEqualChildren(node) = {}

RECURSIVE KindRule(_, _, _)
\* the kind invariant for the node that compares a with b and every node below
KindRule(node, a, b) ==
    /\ (node.Type = DiffTypeEqual) <=> (~OwnDifference(a, b) /\ NonEqualChildren(node) = {})
    /\ NonEqualChildren(node) # {} => node.Type = DiffTypeModified
    /\ \A k \in DOMAIN node.Children :
           IF ~Containers(a, b) THEN FALSE
           ELSE IF a.t = "object"
           THEN IF k \in DOMAIN a.v /\ k \in DOMAIN b.v
                THEN KindRule(node.Children[k], a.v[k], b.v[k])
                ELSE OneSidedKind(node.Children[k])
           ELSE LET i == IndexOf(k) + 1
                IN IF i >= 1 /\ i <= Len(a.v) /\ i <= Len(b.v)
                   THEN KindRule(node.Children[k], a.v[i], b.v[i])
                   ELSE OneSidedKind(node.Children[k])

C22_KindInvariant ==
    Compared => KindRule(diff, Object(obj1), Object(obj2))

\* an array with one differing element below a root that has an own
\* difference at id as well: the array and the root are Modified
C22_Witness ==
    /\ Compared
    /\ BothArrays
    /\ DOMAIN diff.Children = {"id", "tags"}
    /\ diff.Type = DiffTypeModified
    /\ diff.Children["id"].Type = DiffTypeModified
    /\ diff.Children["tags"].Type = DiffTypeModified
    /\ DOMAIN diff.Children["tags"].Children = {"[0]"}

(***************************************************************************)
(* C23  Payload population by kind: in every tree returned by Compare,     *)
(* every Added node carries only after, every Removed node carries only    *)
(* before, every Modified node carries both before and after, and every    *)
(* Equal node carries neither.                                             *)
(***************************************************************************)
\* the payloads the claim asks of one node
PayloadByKind(node) ==
    /\ node.Type = DiffTypeAdded => (node.Value1 = Nil /\ node.Value2 # Nil)
    /\ node.Type = DiffTypeRemoved => (node.Value1 # Nil /\ node.Value2 = Nil)
    /\ node.Type = DiffTypeModified => (node.Value1 # Nil /\ node.Value2 # Nil)
    /\ node.Type = DiffTypeEqual => (node.Value1 = Nil /\ node.Value2 = Nil)

RECURSIVE PayloadByKindBelow(_)
\* the claim for a node and every node below it
PayloadByKindBelow(node) ==
    /\ PayloadByKind(node)
    /\ \A k \in DOMAIN node.Children : PayloadByKindBelow(node.Children[k])

C23_PayloadByKind ==
    Compared => PayloadByKindBelow(diff)

\* a node for a key or index present in the first operand only (`first`) or
\* in the second only: no payload on the other side, and on its own side the
\* value removed or added, which is null when that value is null
OneSidedPayload(node, val, first) ==
    /\ node.Type = IF first THEN DiffTypeRemoved ELSE DiffTypeAdded
    /\ node.Value1 = IF first THEN val ELSE Nil
    /\ node.Value2 = IF first THEN Nil ELSE val
    /\ DOMAIN node.Children = {}

RECURSIVE PayloadRule(_, _, _)
\* the payloads of the node that compares a with b and of every node below:
\* a node with children and an Equal node carry neither payload, a Modified
\* node without children carries both, an Added node only after and a
\* Removed node only before
PayloadRule(node, a, b) ==
    /\ (DOMAIN node.Children # {} \/ node.Type = DiffTypeEqual) =>
           (node.Value1 = Nil /\ node.Value2 = Nil)
    /\ (DOMAIN node.Children = {} /\ node.Type = DiffTypeModified) =>
           (node.Value1 = a /\ node.Value2 = b /\ a # Nil /\ b # Nil)
    /\ node.Type = DiffTypeAdded =>
           (node.Value1 = Nil /\ node.Value2 = b /\ b # Nil /\ DOMAIN node.Children = {})
    /\ node.Type = DiffTypeRemoved =>
           (node.Value1 = a /\ node.Value2 = Nil /\ a # Nil /\ DOMAIN node.Children = {})
    /\ \A k \in DOMAIN node.Children :
           IF ~Containers(a, b) THEN FALSE
           ELSE IF a.t = "object"
           THEN IF k \in DOMAIN a.v /\ k \in DOMAIN b.v
                THEN PayloadRule(node.Children[k], a.v[k], b.v[k])
                ELSE IF k \in DOMAIN a.v
                THEN OneSidedPayload(node.Children[k], a.v[k], TRUE)
                ELSE OneSidedPayload(node.Children[k], b.v[k], FALSE)
           ELSE LET i == IndexOf(k) + 1
                IN IF i >= 1 /\ i <= Len(a.v) /\ i <= Len(b.v)
                   THEN PayloadRule(node.Children[k], a.v[i], b.v[i])
                   ELSE IF i <= Len(a.v)
                   THEN OneSidedPayload(node.Children[k], a.v[i], TRUE)
                   ELSE OneSidedPayload(node.Children[k], b.v[i], FALSE)

\* the claim as amended: a Modified node carries both payloads when it has
\* no children and neither when it has; the after of an Added node and the
\* before of a Removed node is the value added or removed, null included
C23_PayloadByKindOfLeaves ==
    Compared => PayloadRule(diff, Object(obj1), Object(obj2))

\* a Modified array node without payloads above a Modified element that
\* carries both, next to a key added with the value null
C23_Witness ==
    /\ Compared
    /\ BothArrays
    /\ "id" \notin DOMAIN obj1
    /\ "id" \in DOMAIN obj2
    /\ obj2["id"] = Nil
    /\ DOMAIN diff.Children = {"id", "tags"}
    /\ diff.Children["id"].Type = DiffTypeAdded
    /\ diff.Children["id"].Value2 = Nil
    /\ diff.Children["tags"].Type = DiffTypeModified
    /\ diff.Children["tags"].Value1 = Nil
    /\ DOMAIN diff.Children["tags"].Children = {"[0]"}
    /\ diff.Children["tags"].Children["[0]"].Type = DiffTypeModified
    /\ diff.Children["tags"].Children["[0]"].Value1 # Nil
    /\ diff.Children["tags"].Children["[0]"].Value2 # Nil

(***************************************************************************)
(* C24  Path uniqueness: in every tree returned by Compare, for documents  *)
(* whose keys are arbitrary strings, no two distinct nodes have the same   *)
(* path, and each node's path is the concatenation of its ancestors'       *)
(* tokens (".key" for object fields, without the leading dot at the root,  *)
(* "[index]" for array elements).                                          *)
(***************************************************************************)
RECURSIVE PathsOf(_)
\* the paths of a node and of every node below it, one entry per node
PathsOf(node) ==
    LET keys == SortStrings(DOMAIN node.Children)
    IN <<node.Path>> \o Concat([i \in 1..Len(keys) |-> PathsOf(node.Children[keys[i]])])

RECURSIVE PathRule(_, _, _)
\* below the node that compares a with b, the path of a child is the path of
\* its parent followed by the child's token
PathRule(node, a, b) ==
    \A k \in DOMAIN node.Children :
        /\ Containers(a, b)
        /\ node.Children[k].Path =
               IF a.t = "object" THEN FieldPath(node.Path, k) ELSE node.Path \o k
        /\ IF a.t = "object"
           THEN (k \in DOMAIN a.v /\ k \in DOMAIN b.v) =>
                    PathRule(node.Children[k], a.v[k], b.v[k])
           ELSE LET i == IndexOf(k) + 1
                IN (i >= 1 /\ i <= Len(a.v) /\ i <= Len(b.v)) =>
                       PathRule(node.Children[k], a.v[i], b.v[i])

C24_PathUniqueness ==
    pc # "input" =>
        /\ diff.Path = ""
        /\ PathRule(diff, Object(obj1), Object(obj2))
        /\ LET paths == PathsOf(diff)
           IN \A i, j \in 1..Len(paths) : i # j => paths[i] # paths[j]

(***************************************************************************)
(* C25  A Diff tree is immutable once Compare returns: GetAllDiffs,        *)
(* PrintGitStyleDiff and PrintGitStyleDiffV2 leave every node's kind,      *)
(* payloads and children map unchanged, for every tree returned by         *)
(* Compare.                                                                *)
(***************************************************************************)
C25_TreeImmutable ==
    pc # "input" => (heap = NoWrites /\ TreeAt(diff, heap) = diff)

(***************************************************************************)
(* C26  Hierarchical array block: for every node produced by an array      *)
(* comparison, the hierarchical renderer emits one "array with changes"    *)
(* block that lists exactly the differing indices, each once, in ascending *)
(* numeric index order, and mentions no index whose elements are equal; an *)
(* object node is never rendered as an array block.                        *)
(***************************************************************************)
\* s starts with prefix
HasPrefix(s, prefix) ==
    Len(s) >= Len(prefix) /\ SubSeq(s, 1, Len(prefix)) = prefix

RECURSIVE ArrayNodes(_, _, _, _)
\* the nodes at or below `node` (stored under `key`, comparing a with b) that
\* an array comparison produced, each with its key and the two arrays
ArrayNodes(key, node, a, b) ==
    IF ~Containers(a, b) THEN <<>>
    ELSE (IF a.t = "array" THEN <<[key |-> key, node |-> node, a |-> a.v, b |-> b.v]>> ELSE <<>>)
         \o LET keys == SortStrings(DOMAIN node.Children)
                at(k) == IndexOf(k) + 1
                both(k) == IF a.t = "object" THEN k \in DOMAIN a.v /\ k \in DOMAIN b.v
                           ELSE at(k) >= 1 /\ at(k) <= Len(a.v) /\ at(k) <= Len(b.v)
            IN Concat([i \in 1..Len(keys) |->
                          IF ~both(keys[i]) THEN <<>>
                          ELSE IF a.t = "object"
                          THEN ArrayNodes(keys[i], node.Children[keys[i]],
                                          a.v[keys[i]], b.v[keys[i]])
                          ELSE ArrayNodes(keys[i], node.Children[keys[i]],
                                          a.v[at(keys[i])], b.v[at(keys[i])])])

\* the indices at which the arrays x and y differ
DifferingIndices(x, y) ==
    {i \in 0 .. (Max(Len(x), Len(y)) - 1) :
        \/ i >= Len(x)
        \/ i >= Len(y)
        \/ x[i + 1].t # y[i + 1].t
        \/ x[i + 1].v # y[i + 1].v}

RECURSIVE Ascending(_)
\* a set of numbers as an ascending sequence
Ascending(S) ==
    IF S = {} THEN <<>>
    ELSE LET least == CHOOSE x \in S : \A y \in S : x <= y
         IN <<least>> \o Ascending(S \ {least})

\* the markers that open an entry
Marks == {green("+"), red("-"), yellow("~")}

\* `text` holds one array block for the array node e, and the block lists
\* the differing indices of the two arrays in ascending order
ArrayBlock(text, e) ==
    LET title == yellow("~") \o " " \o cyan(e.key) \o " (array with changes)"
        heads == {p \in 1..Len(text) : HasSuffix(text[p], title)}
    IN /\ Cardinality(heads) = 1
       /\ LET p == CHOOSE q \in heads : TRUE
              lead == SubSeq(text[p], 1, Len(text[p]) - Len(title))
              opens(q, i) == \E mark \in Marks :
                                HasPrefix(text[q], lead \o "    " \o mark \o " " \o IndexKey(i))
              isElement(q) == q > p /\ \E i \in 0..MaxLongLen : opens(q, i)
              lines == SelectSeq([q \in 1..Len(text) |-> q], isElement)
              listed == [n \in 1..Len(lines) |->
                            CHOOSE i \in 0..MaxLongLen : opens(lines[n], i)]
          IN listed = Ascending(DifferingIndices(e.a, e.b))

\* the claim for one hierarchical render of the compared tree
ArrayBlocks(text) ==
    LET arrays == ArrayNodes("", diff, Object(obj1), Object(obj2))
    IN /\ \A n \in 1..Len(arrays) : ArrayBlock(text, arrays[n])
       /\ Cardinality({p \in 1..Len(text) : HasSuffix(text[p], " (array with changes)")})
              = Len(arrays)

C26_ArrayBlocks ==
    \A r \in 1..Len(outs) :
        outs[r].style = "hierarchical" => ArrayBlocks(outs[r].text)

(***************************************************************************)
(* C27  No missed difference: with showAll = true or an empty rule set,    *)
(* for all documents a and b, Compare(a, b) has a root of kind Equal only  *)
(* if a and b are structurally equal (same keys, same array lengths, same  *)
(* values at every position).                                              *)
(***************************************************************************)
RECURSIVE StructurallyEqual(_, _)
\* a and b are of one kind and, position by position, hold the same values
StructurallyEqual(a, b) ==
    /\ a.t = b.t
    /\ IF a.t = "object"
       THEN /\ DOMAIN a.v = DOMAIN b.v
            /\ \A k \in DOMAIN a.v : StructurallyEqual(a.v[k], b.v[k])
       ELSE IF a.t = "array"
       THEN /\ Len(a.v) = Len(b.v)
            /\ \A i \in 1..Len(a.v) : StructurallyEqual(a.v[i], b.v[i])
       ELSE a.v = b.v

\* no rule can suppress a key
NothingSuppressed == showAll \/ config = EmptyConfig

C27_NoMissedDifference ==
    (Compared /\ NothingSuppressed /\ diff.Type = DiffTypeEqual) =>
        StructurallyEqual(Object(obj1), Object(obj2))

\* two equal documents with an id and a non-empty array compare Equal under
\* showAll with the default rules, and a pair that differs only in one array
\* element does not
C27_Witness ==
    /\ Compared
    /\ showAll
    /\ config = Default
    /\ diff.Type = DiffTypeEqual
    /\ DOMAIN obj1 = {"id", "tags"}
    /\ obj1["tags"].t = "array"
    /\ Len(obj1["tags"].v) = 1
    /\ StructurallyEqual(Object(obj1), Object(obj2))

\* two documents that differ in the last element of an array only
C27_WitnessDiffers ==
    /\ Compared
    /\ NothingSuppressed
    /\ BothArrays
    /\ Len(obj1["tags"].v) = 2
    /\ Len(obj2["tags"].v) = 2
    /\ StructurallyEqual(obj1["tags"].v[1], obj2["tags"].v[1])
    /\ ~StructurallyEqual(obj1["tags"].v[2], obj2["tags"].v[2])
    /\ diff.Type = DiffTypeModified

(***************************************************************************)
(* compareObjects as the loop it is: `for key := range keys` visits the    *)
(* keys of the union in an order the runtime picks.  An order is given as  *)
(* a ranking of all key names; `ranks` holds one ranking per nesting       *)
(* level, the last one serving every deeper level.                         *)
(***************************************************************************)
\* the keys S in the order of the ranking
InOrder(S, ranking) == SelectSeq(ranking, LAMBDA k : k \in S)

\* the rankings for the objects one level down
Below(ranks) == IF Len(ranks) > 1 THEN Tail(ranks) ELSE ranks

\* diff.Children[key] = child; diff.Type = DiffTypeModified
storeChild(acc, key, child) ==
    [acc EXCEPT !.Type = DiffTypeModified,
                !.Children = [k \in DOMAIN acc.Children \cup {key} |->
                                 IF k = key THEN child ELSE acc.Children[k]]]

RECURSIVE compareObjectsRanged(_, _, _, _, _)
RECURSIVE compareValuesRanged(_, _, _, _, _)
RECURSIVE compareArraysRanged(_, _, _, _, _)
RECURSIVE rangeKeys(_, _, _, _, _, _, _)

\* mutant: a key that compares Equal sets the kind of the parent back to Equal
objectStepLastWins(d, o1, o2, path, ranks, acc, key) ==
    LET fieldPath == FieldPath(path, key)
    IN IF ~d.showAll /\ ShouldIgnore(d.config, fieldPath) THEN acc
       ELSE IF key \notin DOMAIN o1 /\ key \in DOMAIN o2
       THEN storeChild(acc, key, Diff(fieldPath, DiffTypeAdded, Nil, o2[key], NoChildren))
       ELSE IF key \in DOMAIN o1 /\ key \notin DOMAIN o2
       THEN storeChild(acc, key, Diff(fieldPath, DiffTypeRemoved, o1[key], Nil, NoChildren))
       ELSE LET childDiff == compareValuesRanged(d, o1[key], o2[key], fieldPath, Below(ranks))
            IN IF childDiff.Type # DiffTypeEqual THEN storeChild(acc, key, childDiff)
               ELSE [acc EXCEPT !.Type = DiffTypeEqual]

\* one turn of the loop of compareObjects: the key is skipped, or its child is
\* stored and the node set to Modified, or (an Equal child) nothing is written
objectStep(d, o1, o2, path, ranks, acc, key) ==
    LET fieldPath == FieldPath(path, key)
    IN IF ~d.showAll /\ ShouldIgnore(d.config, fieldPath) THEN acc
       ELSE IF key \notin DOMAIN o1 /\ key \in DOMAIN o2
       THEN storeChild(acc, key, Diff(fieldPath, DiffTypeAdded, Nil, o2[key], NoChildren))
       ELSE IF key \in DOMAIN o1 /\ key \notin DOMAIN o2
       THEN storeChild(acc, key, Diff(fieldPath, DiffTypeRemoved, o1[key], Nil, NoChildren))
       ELSE LET childDiff == compareValuesRanged(d, o1[key], o2[key], fieldPath, Below(ranks))
            IN IF childDiff.Type # DiffTypeEqual THEN storeChild(acc, key, childDiff)
               ELSE acc

\* the loop of compareObjects over the keys still to visit
rangeKeys(d, o1, o2, path, ranks, acc, keys) ==
    IF keys = <<>> THEN acc
    ELSE rangeKeys(d, o1, o2, path, ranks,
                   objectStep(d, o1, o2, path, ranks, acc, Head(keys)), Tail(keys))

\* compareObjects(obj1, obj2, path), its keys ranged over as ranks[1] orders them
compareObjectsRanged(d, o1, o2, path, ranks) ==
    rangeKeys(d, o1, o2, path, ranks, Diff(path, DiffTypeEqual, Nil, Nil, NoChildren),
              InOrder(DOMAIN o1 \cup DOMAIN o2, ranks[1]))

\* compareValues(val1, val2, path) with the objects below it ranged over by ranks
compareValuesRanged(d, val1, val2, path, ranks) ==
    IF val1.t = "object" /\ val2.t = "object"
    THEN compareObjectsRanged(d, val1.v, val2.v, path, ranks)
    ELSE IF val1.t = "array" /\ val2.t = "array"
    THEN compareArraysRanged(d, val1.v, val2.v, path, ranks)
    ELSE compareValues(d, val1, val2, path)

\* compareArrays(arr1, arr2, path): the indices are visited in ascending order
compareArraysRanged(d, arr1, arr2, path, ranks) ==
    LET idx == arrayIndices(arr1, arr2)
        child == [i \in idx |->
                     IF i < Len(arr1) /\ i < Len(arr2)
                     THEN compareValuesRanged(d, arr1[i + 1], arr2[i + 1],
                                              path \o IndexKey(i), ranks)
                     ELSE arrayChild(d, arr1, arr2, path, i)]
        stored == {i \in idx : child[i].Type # DiffTypeEqual}
        at(key) == CHOOSE i \in stored : IndexKey(i) = key
    IN Diff(path, IF stored = {} THEN DiffTypeEqual ELSE DiffTypeModified, Nil, Nil,
            [key \in {IndexKey(i) : i \in stored} |-> child[at(key)]])

(***************************************************************************)
(* Comparing under every iteration order: documents with up to three root  *)
(* keys and nested objects of up to two keys.                              *)
(***************************************************************************)
\* the key names of the documents
RankedKeys == {"id", "name", "tags"}

\* the key names of a nested object
RankedInnerKeys == {"id", "name"}

\* what a root field holds: a scalar, an object, or an array of one object
RankedValues ==
    {Number("1"), Number("2")}
        \cup {Object(m) : m \in MapsOver(RankedInnerKeys, {Number("1"), Number("2")})}
        \cup {Array(<<Object(m)>>) : m \in [RankedInnerKeys -> {Number("1")}]}

\* the documents: id is a number, name is the number 1, tags is a container
RankedDocuments ==
    {m \in MapsOver(RankedKeys, RankedValues) :
        /\ ("id" \in DOMAIN m) => m["id"].t = "number"
        /\ ("name" \in DOMAIN m) => m["name"] = Number("1")
        /\ ("tags" \in DOMAIN m) => m["tags"].t \in {"object", "array"}}

\* the rule sets: none, and one that names a root key and a nested key
RankedConfigs == {EmptyConfig, Config(<<"name", "tags.id">>, <<>>)}

\* the rankings of the key names
Rankings == Orders(RankedKeys)

InitRanked ==
    /\ obj1 \in RankedDocuments
    /\ obj2 \in RankedDocuments
    /\ config \in RankedConfigs
    /\ showAll \in BOOLEAN
    /\ diff = NoDiff
    /\ diffs = <<>>
    /\ pc = "input"
    /\ NothingRendered
    /\ NoCommand

\* diff := NewDiffer(config, showAll).Compare(obj1, obj2), the maps ranged
\* over in some order at the root and in some order below it
DoCompareRanged ==
    /\ pc = "input"
    /\ \E top \in Rankings : \E inner \in Rankings :
           diff' = compareObjectsRanged(NewDiffer(config, showAll), obj1, obj2, "",
                                        <<top, inner>>)
    /\ pc' = "compared"
    /\ UNCHANGED <<obj1, obj2, config, showAll, diffs, renderVars, cmdVars>>

NextRanked == DoCompareRanged \/ DoGetAllDiffs

SpecRanked == InitRanked /\ [][NextRanked]_vars

(***************************************************************************)
(* C28  Compare is deterministic: for fixed documents, rule set and        *)
(* showAll, the returned tree (paths, kinds, payloads, children keys) is   *)
(* the same for every order in which the keys of each object are iterated. *)
(***************************************************************************)
\* the ranking that visits the keys in sorted order
SortedRanking == SortStrings(RankedKeys)

C28_Deterministic ==
    Compared =>
        /\ diff = compareObjectsRanged(TheDiffer, obj1, obj2, "",
                                       <<SortedRanking, SortedRanking>>)
        /\ diff = Compare(TheDiffer, obj1, obj2)

\* three root keys were compared, one Equal, one on one side only and one a
\* nested object of two keys of which one differs
C28_Witness ==
    /\ Compared
    /\ keptKeys(TheDiffer, obj1, obj2, "") = RankedKeys
    /\ "id" \in DOMAIN obj1 \cap DOMAIN obj2
    /\ obj1["id"] = obj2["id"]
    /\ "name" \in DOMAIN obj2 \ DOMAIN obj1
    /\ "tags" \in DOMAIN obj1 \cap DOMAIN obj2
    /\ obj1["tags"].t = "object"
    /\ obj2["tags"].t = "object"
    /\ DOMAIN obj1["tags"].v = RankedInnerKeys
    /\ DOMAIN obj2["tags"].v = RankedInnerKeys
    /\ DOMAIN diff.Children = {"name", "tags"}
    /\ DOMAIN diff.Children["tags"].Children = {"name"}

(***************************************************************************)
(* C29  The two text styles agree on content: for every tree returned by   *)
(* Compare, the hierarchical renderer prints one leaf entry (with its      *)
(* before/after or added/removed value) for each leaf returned by          *)
(* GetAllDiffs and for no other node, and it prints the no-differences     *)
(* message exactly when the grouped renderer does, including when          *)
(* root-level keys contain '.' or '['.                                     *)
(***************************************************************************)
\* sub occurs in s
Contains(s, sub) ==
    \E i \in 1 .. (Len(s) - Len(sub) + 1) : SubSeq(s, i, i + Len(sub) - 1) = sub

\* the number of lines of `text` in which sub occurs
LinesWith(text, sub) == Cardinality({p \in 1..Len(text) : Contains(text[p], sub)})

\* the number of leaves of one kind
LeavesOf(leaves, type) == Cardinality({i \in 1..Len(leaves) : leaves[i].Type = type})

\* `text` shows the value in the colour `code`, inline or as the first line
\* of its indented form
ShowsValue(text, value, code) ==
    \E p \in 1..Len(text) :
        \/ Contains(text[p], printInlineValue(value, code))
        \/ Contains(text[p], printValue("", value, code)[1])

\* `text` has an entry for every leaf and for nothing else: an added value
\* is opened by a green +, a removed one by a red -, and a modified leaf
\* shows both
LeafEntries(text, leaves) ==
    /\ LinesWith(text, green("+"))
           = LeavesOf(leaves, DiffTypeAdded) + LeavesOf(leaves, DiffTypeModified)
    /\ LinesWith(text, red("-"))
           = LeavesOf(leaves, DiffTypeRemoved) + LeavesOf(leaves, DiffTypeModified)
    /\ \A i \in 1..Len(leaves) :
           /\ leaves[i].Type \in {DiffTypeAdded, DiffTypeModified} =>
                  ShowsValue(text, leaves[i].Value2, "32")
           /\ leaves[i].Type \in {DiffTypeRemoved, DiffTypeModified} =>
                  ShowsValue(text, leaves[i].Value1, "31")

C29_StylesAgree ==
    (outs # <<>> /\ outs[1].style = "hierarchical") =>
        LET text == outs[1].text
            grouped == PrintGitStyleDiff(diff, name1, name2)
        IN /\ ~outs[1].overflow
           /\ (diff.Type # DiffTypeEqual) => LeafEntries(text, GetAllDiffs(diff))
           /\ (NoDifferences \in Range(text)) <=> (NoDifferences \in Range(grouped))

(***************************************************************************)
(* C30  Command step ordering: in runResource, an empty project1 ends the  *)
(* command with an error before any fetch is started; a failed fetch of    *)
(* the first resource ends the command before the second fetch starts; a   *)
(* failed fetch of either resource ends the command before config loading, *)
(* Compare or any diff output; diff output is produced only after both     *)
(* resource fetches have succeeded.                                        *)
(***************************************************************************)
\* the fetches of a resource that were started: each announces itself on stderr
FetchesStarted ==
    Cardinality({i \in 1..Len(stderr) : HasPrefix(stderr[i], "Fetching resource with: ")})

\* a fetch of a resource has failed
FetchHasFailed == HasPrefix(err, "failed to fetch resource: ")

\* config loading, Compare and the output have not happened
NothingAfterFetch ==
    /\ loaded = NotLoaded
    /\ cfg = EmptyConfig
    /\ diff = NoDiff
    /\ outs = <<>>
    /\ \A i \in 1..Len(stderr) : ~HasPrefix(stderr[i], "Warning: could not load config")

C30_StepOrdering ==
    (command = "resource") =>
        /\ (project1 = "" /\ pc # "start") =>
               /\ pc = "done"
               /\ err = "--project1 is required"
               /\ FetchesStarted = 0
               /\ stderr = <<>>
               /\ resource1 = EmptyMap /\ resource2 = EmptyMap
               /\ NothingAfterFetch
        /\ FetchesStarted > 0 => project1 # ""
        /\ FetchesStarted = 2 => resource1 # EmptyMap
        /\ FetchHasFailed =>
               /\ pc = "done"
               /\ resource2 = EmptyMap
               /\ (resource1 = EmptyMap) => FetchesStarted = 1
               /\ NothingAfterFetch
        /\ (loaded # NotLoaded \/ diff # NoDiff \/ outs # <<>>) =>
               /\ err = ""
               /\ FetchesStarted = 2
               /\ resource1 # EmptyMap /\ resource2 # EmptyMap
        /\ (diff # NoDiff) => pc \in {"done", "crashed"} /\ outs # <<>>
        /\ (pc = "compare") => loaded # NotLoaded

\* the first fetch has failed and the command has ended
C30_Witness ==
    /\ command = "resource"
    /\ FetchHasFailed
    /\ resource1 = EmptyMap
    /\ FetchesStarted = 1
    /\ pc = "done"

\* the second fetch has failed
C30_WitnessSecond ==
    /\ command = "resource"
    /\ FetchHasFailed
    /\ resource1 # EmptyMap
    /\ FetchesStarted = 2

\* project1 was not given
C30_WitnessNoProject ==
    /\ command = "resource"
    /\ err = "--project1 is required"

\* both fetches succeeded and the difference was written
C30_WitnessOutput ==
    /\ command = "resource"
    /\ outs # <<>>
    /\ FetchesStarted = 2

====
